---- MODULE Spec2Model ----
(***************************************************************************)
(* Verification model of the Meta publishing pipeline:                     *)
(*   - the credential vault (meta_token table, MetaTokenDbWriter,          *)
(*     MetaTokenDbReader, MetaTokenCrypto),                                *)
(*   - the ad pipelines (AdsStairway / FbAdsStairway driven by main()),    *)
(*   - the completion poller (_wait_until_media_finished),                 *)
(*   - the calls that submit organic containers and ad entities,           *)
(*   - the carousel creative builders.                                     *)
(* Each part has its own variables and its own specification; the other    *)
(* parts' variables stay at their initial values.                          *)
(***************************************************************************)
EXTENDS Integers, Sequences, FiniteSets, TLC

VARIABLES
    meta_token,   \* committed rows of table meta_token, in commit order
    tx,           \* per writer: the store_token call / its open transaction
    nTx,          \* store_token calls started so far (the database clock)
    rd,           \* the reading client: its call and what it returned
    ads,          \* the stairway object of the pipeline run (its fields)
    run,          \* the caller of the stairway: main() and its position
    graph,        \* the requests sent to the Graph API, with their outcome
    last,         \* how the last stairway call ended and what it returned
    poll,         \* _wait_until_media_finished: its loop and what it observed
    sub,          \* a call that submits to the Graph API: its loops and requests
    build,        \* a call of a carousel builder: its arguments and its outcome
    shared        \* the module-level lists of the routers and the runs using them

varsVault == <<meta_token, tx, nTx, rd>>

varsPipe == <<ads, run, graph, last>>

varsPoll == <<poll>>

varsSubmit == <<sub>>

varsBuild == <<build>>

varsShared == <<shared>>

varsCalls == <<varsPoll, varsSubmit, varsBuild, varsShared>>

vars == <<varsVault, varsPipe, varsCalls>>

(***************************************************************************)
(* Bounds of the model                                                     *)
(***************************************************************************)
MaxTx == 3
MaxReq == 5
MaxCards == 2
MaxImages == 3

(***************************************************************************)
(* A specification exercises one part; the other parts rest in these       *)
(* states.                                                                 *)
(***************************************************************************)
NoAds == [kind |-> "none"]
NoRun == [driver |-> "none"]
NoCall == [status |-> "none", value |-> 0]
NoPoll == [pc |-> "none"]

PipeAtRest == ads = NoAds /\ run = NoRun /\ graph = <<>> /\ last = NoCall

PollAtRest == poll = NoPoll

NoSub == [pc |-> "none"]
NoBuild == [pc |-> "none"]

SubmitAtRest == sub = NoSub

BuildAtRest == build = NoBuild

NoShared == [pc |-> "none"]

SharedAtRest == shared = NoShared

CallsAtRest == PollAtRest /\ SubmitAtRest /\ BuildAtRest /\ SharedAtRest

(***************************************************************************)
(* The credential vault                                                    *)
(***************************************************************************)
\* The plaintext of the n-th store_token call: every call brings a new secret.
Secret(n) == <<"S", n>>
Writers == {"w1", "w2"}

Key(c, t, o) == [client_id |-> c, owner_type |-> t, owner_id |-> o]

\* One page key, and the keys that differ from it in the tenant, in the owner
\* type and in the owner id.
Keys ==
    {Key("c1", "page", "id1"), Key("c2", "page", "id1"),
     Key("c1", "user", "id1"), Key("c1", "page", "id2")}

NoKey == [client_id |-> "", owner_type |-> "", owner_id |-> ""]

\* TOKEN_ENCRYPTION_KEY: writer and reader build MetaTokenCrypto from the same
\* environment variable.
FernetKey == "fk"

\* Fernet token: the plaintext sealed under the key with a fresh IV.
encrypt(plaintext, iv) == <<"fernet", FernetKey, iv, plaintext>>

\* No secret: what a failed read carries.
NoToken == <<>>

\* A reader that hands out the stored ciphertext as it is.
decrypt_not_applied(ciphertext) == ciphertext

decrypt(ciphertext) ==
    IF ciphertext[2] = FernetKey THEN ciphertext[4] ELSE <<"InvalidToken">>

fingerprint(plaintext) == <<"sha256", plaintext>>

KeyOf(row) ==
    [client_id |-> row.client_id, owner_type |-> row.owner_type,
     owner_id |-> row.owner_id]

\* An UPDATE whose WHERE clause leaves out the owner type.
ActiveIds_any_owner_type(table, key) ==
    {i \in DOMAIN table :
        /\ table[i].client_id = key.client_id
        /\ table[i].owner_id = key.owner_id
        /\ table[i].status = "active"}

\* The UPDATE's WHERE client_id=%s AND owner_type=%s AND owner_id=%s AND
\* status='active'
ActiveIds(table, key) ==
    {i \in DOMAIN table : KeyOf(table[i]) = key /\ table[i].status = "active"}

RowsOf(table, key) == {i \in DOMAIN table : KeyOf(table[i]) = key}

Revoke(table, ids) ==
    [i \in DOMAIN table |->
        IF i \in ids THEN [table[i] EXCEPT !.status = "revoked"] ELSE table[i]]

IdleTx ==
    [pc |-> "idle", res |-> "none", key |-> NoKey, token |-> NoToken,
     start |-> 0, base |-> 0, snap |-> {}, upd |-> {}]

\* A finished call: store_token returns None; a failed call leaves its
\* exception, kept here with its key and the rows its UPDATE had changed
\* before the rollback.
Finished(t, res) ==
    IF res = "error"
    THEN [IdleTx EXCEPT !.res = res, !.key = t.key, !.upd = t.upd]
    ELSE IdleTx

\* Row locks a transaction holds: the rows its UPDATE has changed.
Locks(w) == IF tx[w].pc \in {"revoked", "inserted"} THEN tx[w].upd ELSE {}

LockedByOther(w, i) == \E v \in Writers \ {w} : i \in Locks(v)

\* The UPDATE on an autocommit connection: the revoke is committed at once,
\* before the INSERT.
store_token_update_autocommit(w, key, token) ==
    /\ tx[w].pc = "idle"
    /\ nTx < MaxTx
    /\ meta_token' = Revoke(meta_token, ActiveIds(meta_token, key))
    /\ tx' = [tx EXCEPT ![w] =
                 [pc |-> "revoked", res |-> "none", key |-> key, token |-> token,
                  start |-> nTx + 1, base |-> Len(meta_token),
                  snap |-> {}, upd |-> {}]]
    /\ nTx' = nTx + 1
    /\ UNCHANGED <<rd, varsPipe, varsCalls>>

\* store_token, first statement: the UPDATE that revokes the active rows of
\* the key.  It opens the transaction (READ COMMITTED); a row locked by another
\* open transaction makes the statement wait with its snapshot taken.
store_token_update(w, key, token) ==
    /\ tx[w].pc = "idle"
    /\ nTx < MaxTx
    /\ LET cand == ActiveIds(meta_token, key)
           blocked == \E i \in cand : LockedByOther(w, i)
       IN tx' = [tx EXCEPT ![w] =
                    [pc |-> IF blocked THEN "waiting" ELSE "revoked",
                     res |-> "none", key |-> key, token |-> token,
                     start |-> nTx + 1, base |-> Len(meta_token),
                     snap |-> cand,
                     upd |-> IF blocked THEN {} ELSE cand]]
    /\ nTx' = nTx + 1
    /\ UNCHANGED <<meta_token, rd, varsPipe, varsCalls>>

\* The waiting UPDATE goes on when the locks are released: each row of its
\* snapshot is re-checked in its latest committed version; rows inserted since
\* are not seen.
store_token_update_resume(w) ==
    /\ tx[w].pc = "waiting"
    /\ \A i \in tx[w].snap : ~LockedByOther(w, i)
    /\ tx' = [tx EXCEPT ![w].pc = "revoked",
                        ![w].upd = {i \in tx[w].snap :
                                       meta_token[i].status = "active"}]
    /\ UNCHANGED <<meta_token, nTx, rd, varsPipe, varsCalls>>

\* store_token, second statement: the INSERT of the new active row.  The
\* table has no unique constraint on the key (ix_meta_tokens_active is a plain
\* index), so the statement never conflicts.
store_token_insert(w) ==
    /\ tx[w].pc = "revoked"
    /\ tx' = [tx EXCEPT ![w].pc = "inserted"]
    /\ UNCHANGED <<meta_token, nTx, rd, varsPipe, varsCalls>>

NewRow(w) ==
    [client_id |-> tx[w].key.client_id,
     owner_type |-> tx[w].key.owner_type,
     owner_id |-> tx[w].key.owner_id,
     access_token_ciphertext |-> encrypt(tx[w].token, tx[w].start),
     token_fingerprint |-> fingerprint(tx[w].token),
     status |-> "active",
     created_at |-> tx[w].start,
     base |-> tx[w].base]

\* conn.commit(): the revoke and the insert become visible together.
store_token_commit(w) ==
    /\ tx[w].pc = "inserted"
    /\ meta_token' = Append(Revoke(meta_token, tx[w].upd), NewRow(w))
    /\ tx' = [tx EXCEPT ![w] = Finished(tx[w], "ok")]
    /\ UNCHANGED <<nTx, rd, varsPipe, varsCalls>>

\* A failure path that commits what the transaction did so far instead of
\* rolling it back.
store_token_fail_commits(w) ==
    /\ tx[w].pc \in {"waiting", "revoked", "inserted"}
    /\ meta_token' = Revoke(meta_token, tx[w].upd)
    /\ tx' = [tx EXCEPT ![w] = Finished(tx[w], "error")]
    /\ UNCHANGED <<nTx, rd, varsPipe, varsCalls>>

\* An exception in a statement or before the commit leaves the `with
\* psycopg.connect(...)` block: the transaction is rolled back.
store_token_fail(w) ==
    /\ tx[w].pc \in {"waiting", "revoked", "inserted"}
    /\ tx' = [tx EXCEPT ![w] = Finished(tx[w], "error")]
    /\ UNCHANGED <<meta_token, nTx, rd, varsPipe, varsCalls>>

\* A reader whose WHERE clause leaves out the tenant.
SelectActive_any_client(table, key) ==
    {i \in DOMAIN table :
        /\ table[i].owner_type = key.owner_type
        /\ table[i].owner_id = key.owner_id
        /\ table[i].status = "active"}

\* The reader's WHERE client_id=%s AND owner_type=%s AND owner_id=%s AND
\* status='active'
SelectActive(table, key) ==
    {i \in DOMAIN table :
        /\ table[i].client_id = key.client_id
        /\ table[i].owner_type = key.owner_type
        /\ table[i].owner_id = key.owner_id
        /\ table[i].status = "active"}

\* ORDER BY created_at DESC LIMIT 1 over the selected rows.
LatestActive(table, key) ==
    CHOOSE i \in SelectActive(table, key) :
        \A j \in SelectActive(table, key) : table[j].created_at <= table[i].created_at

IdleRd ==
    [pc |-> "idle", op |-> "", key |-> NoKey, status |-> "", token |-> NoToken,
     row |-> 0, ver |-> 0]

\* MetaTokenDbReader.get_active_token: one SELECT on the committed table.
get_active_token_result(table, key) ==
    IF SelectActive(table, key) = {}
    THEN [status |-> "DbReadError", token |-> NoToken, row |-> 0]
    ELSE [status |-> "ok",
          token |-> decrypt(table[LatestActive(table, key)].access_token_ciphertext),
          row |-> LatestActive(table, key)]

\* What a call of the reading client returned; ver records the rows committed
\* when it ran.
Got(op, key, r) ==
    [pc |-> "got", op |-> op, key |-> key, status |-> r.status,
     token |-> r.token, row |-> r.row, ver |-> Len(meta_token)]

get_active_token(key) ==
    /\ rd.pc = "idle"
    /\ rd' = Got("get_active_token", key, get_active_token_result(meta_token, key))
    /\ UNCHANGED <<meta_token, tx, nTx, varsPipe, varsCalls>>

get_active_user_token(table, client_id, meta_user_id) ==
    get_active_token_result(table, Key(client_id, "user", meta_user_id))

get_active_page_token(table, client_id, page_id) ==
    get_active_token_result(table, Key(client_id, "page", page_id))

\* AdsStairway.__init__: the user token, then the page token; either
\* DbReadError ends the construction.  Page-level requests carry the page token.
AdsStairway_init(table, client_id, meta_user_id, page_id) ==
    IF get_active_user_token(table, client_id, meta_user_id).status # "ok"
    THEN get_active_user_token(table, client_id, meta_user_id)
    ELSE get_active_page_token(table, client_id, page_id)

\* FbAdsStairway._req(token_kind="page") -> _page_access_token
FbAdsStairway_page_access_token(table, client_id, meta_user_id, page_id) ==
    get_active_page_token(table, client_id, page_id)

\* meta_analytics: _load_page_or_user_token, page token first, then the user's
load_page_or_user_token(table, client_id, meta_user_id, page_id) ==
    IF get_active_page_token(table, client_id, page_id).status = "ok"
    THEN get_active_page_token(table, client_id, page_id)
    ELSE get_active_user_token(table, client_id, meta_user_id)

\* The components that need a credential for a page-level operation.
Resolvers ==
    {"AdsStairway.__init__", "FbAdsStairway._page_access_token",
     "_load_page_or_user_token"}

page_credential(op, table, client_id, meta_user_id, page_id) ==
    CASE op = "AdsStairway.__init__" ->
            AdsStairway_init(table, client_id, meta_user_id, page_id)
      [] op = "FbAdsStairway._page_access_token" ->
            FbAdsStairway_page_access_token(table, client_id, meta_user_id, page_id)
      [] op = "_load_page_or_user_token" ->
            load_page_or_user_token(table, client_id, meta_user_id, page_id)

\* The tenant whose pipeline runs: its page and the user who owns the page.
RunClient == "c1"
RunPage == "id1"
RunUser == "id1"

resolve_page_credential(op) ==
    /\ rd.pc = "idle"
    /\ rd' = Got(op, Key(RunClient, "page", RunPage),
                 page_credential(op, meta_token, RunClient, RunUser, RunPage))
    /\ UNCHANGED <<meta_token, tx, nTx, varsPipe, varsCalls>>

\* The reading client takes the result and is ready for its next call.
reader_return ==
    /\ rd.pc = "got"
    /\ rd' = IdleRd
    /\ UNCHANGED <<meta_token, tx, nTx, varsPipe, varsCalls>>

InitVault ==
    /\ meta_token = <<>>
    /\ tx = [w \in Writers |-> IdleTx]
    /\ nTx = 0
    /\ rd = IdleRd
    /\ PipeAtRest
    /\ CallsAtRest

NextVault ==
    \/ \E w \in Writers, key \in Keys :
          store_token_update(w, key, Secret(nTx + 1))
    \/ \E w \in Writers : store_token_update_resume(w)
    \/ \E w \in Writers : store_token_insert(w)
    \/ \E w \in Writers : store_token_commit(w)
    \/ \E w \in Writers : store_token_fail(w)
    \/ \E key \in Keys : get_active_token(key)
    \/ reader_return

SpecVault == InitVault /\ [][NextVault]_vars

\* The components that resolve the credential of a page-level operation, run
\* against the tables that authorisations, one store_token after the other,
\* leave behind.
NextResolve ==
    \/ \E key \in Keys : store_token_update("w1", key, Secret(nTx + 1))
    \/ store_token_insert("w1")
    \/ store_token_commit("w1")
    \/ \E op \in Resolvers : resolve_page_credential(op)
    \/ reader_return

SpecResolve == InitVault /\ [][NextResolve]_vars

(***************************************************************************)
(* Claims about the vault                                                  *)
(***************************************************************************)
CommitStep(w) ==
    tx[w].pc = "inserted" /\ tx'[w].pc = "idle" /\ tx'[w].res = "none"

FailStep(w) == tx[w].pc # "idle" /\ tx'[w].pc = "idle" /\ tx'[w].res = "error"

\* The rows of the key that are active, read off the table directly.
ActiveRowsFor(key) ==
    {i \in 1..Len(meta_token) :
        /\ meta_token[i].client_id = key.client_id
        /\ meta_token[i].owner_type = key.owner_type
        /\ meta_token[i].owner_id = key.owner_id
        /\ meta_token[i].status = "active"}

AllRowsFor(key) ==
    {i \in 1..Len(meta_token) :
        /\ meta_token[i].client_id = key.client_id
        /\ meta_token[i].owner_type = key.owner_type
        /\ meta_token[i].owner_id = key.owner_id}

\* The last call of the reading client was get_active_token and the table has
\* not changed since it ran.
ReadNow ==
    rd.pc = "got" /\ rd.op = "get_active_token" /\ rd.ver = Len(meta_token)

\* C1: in every reachable state, concurrent store_token transactions
\* included, the table holds at most one active row per
\* (client_id, owner_type, owner_id).
C1_AtMostOneActive ==
    \A key \in Keys : Cardinality(ActiveRowsFor(key)) <= 1

\* C2: a store_token that commits for a key that had an active row when the
\* call began leaves exactly one active row of the key, the new one; the rows
\* that were active are revoked; the table grows by exactly one row and no
\* ciphertext changes.
C2_RotationLeavesOneActive ==
    [][\A w \in Writers :
          (CommitStep(w) /\ tx[w].snap # {}) =>
             /\ Len(meta_token') = Len(meta_token) + 1
             /\ \A i \in 1..Len(meta_token') :
                   (KeyOf(meta_token'[i]) = tx[w].key
                      /\ meta_token'[i].status = "active")
                   <=> i = Len(meta_token')
             /\ \A i \in ActiveRowsFor(tx[w].key) :
                   meta_token'[i].status = "revoked"
             /\ \A i \in 1..Len(meta_token) :
                   meta_token'[i].access_token_ciphertext
                      = meta_token[i].access_token_ciphertext]_vars

\* C3: a get_active_token that runs while store_token rotates its key never
\* fails for want of an active row once the key has a committed secret, and
\* what it returns is the secret of a row that is active in the committed
\* table, never a superseded one.
C3_ReadSeesCommittedRotation ==
    ReadNow =>
       /\ (AllRowsFor(rd.key) # {} => rd.status = "ok")
       /\ (rd.status = "ok" =>
             /\ rd.row \in ActiveRowsFor(rd.key)
             /\ rd.token = Secret(meta_token[rd.row].created_at))

\* C3 witness: the read returned the secret that an open rotation of the same
\* key has already revoked in its uncommitted transaction.
C3_Witness ==
    /\ ReadNow
    /\ rd.status = "ok"
    /\ \E w \in Writers :
          tx[w].pc \in {"revoked", "inserted"} /\ tx[w].key = rd.key
             /\ rd.row \in tx[w].upd

\* The row of the key committed last, and whether its store_token began after
\* every other store of the key had committed.
LastRowFor(key) ==
    CHOOSE i \in AllRowsFor(key) : \A j \in AllRowsFor(key) : j <= i

StoredInSequence(key) ==
    /\ AllRowsFor(key) # {}
    /\ \A j \in AllRowsFor(key) \ {LastRowFor(key)} :
          j <= meta_token[LastRowFor(key)].base

\* C4: after store_token(S1) followed by store_token(S2) for one key,
\* get_active_token returns the plaintext S2 of the last store.
C4_ReadReturnsLastStored ==
    (ReadNow /\ StoredInSequence(rd.key)) =>
       /\ rd.status = "ok"
       /\ rd.row = LastRowFor(rd.key)
       /\ rd.token = Secret(meta_token[LastRowFor(rd.key)].created_at)

\* C4 witness: two stores of the key, one after the other, and a read that
\* returned the second secret.
C4_Witness ==
    /\ ReadNow
    /\ StoredInSequence(rd.key)
    /\ Cardinality(AllRowsFor(rd.key)) >= 2
    /\ rd.status = "ok"
    /\ rd.token = Secret(meta_token[LastRowFor(rd.key)].created_at)

C6_RevokeOnlyWithInsert ==
    [][/\ meta_token' # meta_token =>
             \A key \in Keys :
                ActiveRowsFor(key)' # ActiveRowsFor(key) =>
                   /\ \E w \in Writers : CommitStep(w) /\ tx[w].key = key
                   /\ Len(meta_token') = Len(meta_token) + 1
                   /\ Len(meta_token') \in ActiveRowsFor(key)'
       /\ \A w \in Writers : FailStep(w) => meta_token' = meta_token]_vars

\* C6 witness: a store_token that had revoked the active row failed, and
\* that row is still active and is what get_active_token returns.
C6_Witness ==
    \E w \in Writers :
       /\ tx[w].pc = "idle"
       /\ tx[w].res = "error"
       /\ tx[w].upd # {}
       /\ \A i \in tx[w].upd : meta_token[i].status = "active"
       /\ get_active_token_result(meta_token, tx[w].key).row \in tx[w].upd

\* C7: a page-level operation whose page has no active secret, while the
\* owning user has one, goes on with the user's secret.
C7_FallbackToUserSecret ==
    (/\ rd.pc = "got"
     /\ rd.op \in Resolvers
     /\ rd.ver = Len(meta_token)
     /\ ActiveRowsFor(Key(RunClient, "page", RunPage)) = {}
     /\ ActiveRowsFor(Key(RunClient, "user", RunUser)) # {}) =>
       /\ rd.status = "ok"
       /\ rd.token = get_active_user_token(meta_token, RunClient, RunUser).token

(***************************************************************************)
(* The ad pipelines: FbAdsStairway and AdsStairway                         *)
(***************************************************************************)
Kinds == {"FbAdsStairway", "AdsStairway"}
Modes == {"video", "image", "carousel_images", "carousel_mixed"}
MediaTypes == {"image", "video"}
Indexes == {0, 1}

\* The integers a caller may pass as index: Python takes a negative index of
\* a list from its end, and any integer is a key of a dict.
Ordinals == {-1, 0, 1}

\* list[index]: the position (from 1) of the item, and whether Python raises
\* IndexError.
Pos(list, index) == IF index >= 0 THEN index + 1 ELSE Len(list) + index + 1

IndexError(list, index) == Pos(list, index) \notin 1..Len(list)
INDEX == 0

\* /me/adaccounts answers with this many accounts; account k has id act_k.
AccountCounts == {0, 1, 2}

\* What the Graph API answers to a request: a payload with the new id, or the
\* error envelope.
Responses == {"id", "error"}

\* A field the payload does not have.
NoField == "<absent>"

\* A request sent to the Graph API and whether it was answered without error.
\* The entity a request creates gets, as its id, the request's position in
\* graph.  video_id and image_url are those of a creative's video_data.
Request(stage, method, ok) ==
    [stage |-> stage, method |-> method, ok |-> ok, n |-> 0,
     ad_account_id |-> 0, campaign_id |-> 0, adset_id |-> 0, creative_id |-> 0,
     path |-> 0, cards |-> <<>>, daily_budget |-> 0,
     video_id |-> 0, image_url |-> NoField]

\* The outcome o of a call entered with the requests g, its creative request
\* (the first it sent, if it sent one) carrying this video_data.
WithVideoData(o, g, video_id, image_url) ==
    IF Len(o.graph) > Len(g)
    THEN [o EXCEPT !.graph[Len(g) + 1].video_id = video_id,
                   !.graph[Len(g) + 1].image_url = image_url]
    ELSE o

\* "daily_budget": "1000" of FbAdsStairway.create_adset, and the default of
\* CreatedCampaign.daily_budget that AdsStairway.create_adset sends.
DAILY_BUDGET == 1000

NoCampaignRef == [ad_account_id |-> 0, campaign_id |-> 0]
NoAdSetRef == [ad_account_id |-> 0, campaign_id |-> 0, adset_id |-> 0]
NoHashes == [x \in {} |-> 0]

\* The stairway object after __init__.  FbAdsStairway uses ad_accounts,
\* picked_ad_account_id, campaign_by_index and adset_by_index; AdsStairway
\* uses campaigns, created_campaigns, adsets and image_hash_by_adset_id.
NewStairway(kind) ==
    [kind |-> kind,
     ad_accounts |-> 0,
     picked_ad_account_id |-> 0,
     campaign_by_index |-> [i \in Ordinals |-> NoCampaignRef],
     adset_by_index |-> [i \in Ordinals |-> NoAdSetRef],
     campaigns |-> <<>>,
     created_campaigns |-> <<>>,
     adsets |-> <<>>,
     image_hash_by_adset_id |-> NoHashes]

\* How a call ends: it returns a value or raises; a is the object and g the
\* requests sent when it ends.
Returned(a, g, value) == [ads |-> a, graph |-> g, raised |-> FALSE, value |-> value]
Raised(a, g) == [ads |-> a, graph |-> g, raised |-> TRUE, value |-> 0]

(* ---------------------------- FbAdsStairway ---------------------------- *)
FbAdsStairway_get_ad_accounts(a, g, resp, n) ==
    LET sent == Append(g, [Request("accounts", "GET", resp # "error")
                              EXCEPT !.n = IF resp = "error" THEN 0 ELSE n])
    IN IF resp = "error" THEN Raised(a, sent)
       ELSE IF n = 0 THEN Raised([a EXCEPT !.ad_accounts = 0], sent)
       ELSE Returned([a EXCEPT !.ad_accounts = n, !.picked_ad_account_id = 1],
                     sent, 1)

\* create_campaign_by_index that stores the reference before it looks at the
\* answer.
FbAdsStairway_create_campaign_by_index_stores_first(a, g, index, resp) ==
    IF a.picked_ad_account_id = 0 THEN Raised(a, g)
    ELSE LET act == a.picked_ad_account_id
             id == Len(g) + 1
             sent == Append(g, [Request("campaign", "POST", resp # "error")
                                   EXCEPT !.ad_account_id = act])
             stored == [a EXCEPT !.campaign_by_index[index] =
                           [ad_account_id |-> act, campaign_id |-> id]]
         IN IF resp = "error" THEN Raised(stored, sent)
            ELSE Returned(stored, sent, id)

FbAdsStairway_create_campaign_by_index(a, g, index, resp) ==
    IF a.picked_ad_account_id = 0 THEN Raised(a, g)
    ELSE LET act == a.picked_ad_account_id
             id == Len(g) + 1
             sent == Append(g, [Request("campaign", "POST", resp # "error")
                                   EXCEPT !.ad_account_id = act])
         IN IF resp = "error" THEN Raised(a, sent)
            ELSE Returned([a EXCEPT !.campaign_by_index[index] =
                              [ad_account_id |-> act, campaign_id |-> id]],
                          sent, id)

\* create_adset that takes the picked account when no campaign is stored for
\* the index.
FbAdsStairway_create_adset_without_campaign(a, g, index, resp) ==
    LET ref == a.campaign_by_index[index]
        id == Len(g) + 1
        sent == Append(g, [Request("adset", "POST", resp # "error")
                              EXCEPT !.ad_account_id = a.picked_ad_account_id,
                                     !.campaign_id = ref.campaign_id,
                                     !.daily_budget = DAILY_BUDGET])
    IN IF resp = "error" THEN Raised(a, sent)
       ELSE Returned([a EXCEPT !.adset_by_index[index] =
                         [ad_account_id |-> a.picked_ad_account_id,
                          campaign_id |-> ref.campaign_id, adset_id |-> id]],
                     sent, id)

FbAdsStairway_create_adset(a, g, index, resp) ==
    LET ref == a.campaign_by_index[index]
        id == Len(g) + 1
        sent == Append(g, [Request("adset", "POST", resp # "error")
                              EXCEPT !.ad_account_id = ref.ad_account_id,
                                     !.campaign_id = ref.campaign_id,
                                     !.daily_budget = DAILY_BUDGET])
    IN IF ref = NoCampaignRef THEN Raised(a, g)
       ELSE IF resp = "error" THEN Raised(a, sent)
       ELSE Returned([a EXCEPT !.adset_by_index[index] =
                         [ad_account_id |-> ref.ad_account_id,
                          campaign_id |-> ref.campaign_id, adset_id |-> id]],
                     sent, id)

\* POST /{act}/adimages; returns the image hash.
FbAdsStairway_upload_ad_image(a, g, adset_index, image_path, resp) ==
    LET ref == a.adset_by_index[adset_index]
        sent == Append(g, [Request("upload", "POST", resp # "error")
                              EXCEPT !.ad_account_id = ref.ad_account_id,
                                     !.path = image_path])
    IN IF ref = NoAdSetRef THEN Raised(a, g)
       ELSE IF resp = "error" THEN Raised(a, sent)
       ELSE Returned(a, sent, Len(g) + 1)

\* [upload_ad_image(p) for p in image_paths]: resps holds the answer to each
\* path's request; the first failure ends the loop.
RECURSIVE FbAdsStairway_upload_ad_images(_, _, _, _, _)
FbAdsStairway_upload_ad_images(a, g, adset_index, image_paths, resps) ==
    IF image_paths = <<>> THEN Returned(a, g, <<>>)
    ELSE LET o == FbAdsStairway_upload_ad_image(a, g, adset_index,
                                                Head(image_paths), Head(resps))
             rest == FbAdsStairway_upload_ad_images(o.ads, o.graph, adset_index,
                                                    Tail(image_paths), Tail(resps))
         IN IF o.raised THEN o
            ELSE IF rest.raised THEN rest
            ELSE Returned(rest.ads, rest.graph, <<o.value>> \o rest.value)

\* POST /{act}/advideos; returns the video id.
FbAdsStairway_upload_ad_video(a, g, adset_index, video_url, resp) ==
    LET ref == a.adset_by_index[adset_index]
        sent == Append(g, [Request("upload", "POST", resp # "error")
                              EXCEPT !.ad_account_id = ref.ad_account_id,
                                     !.path = video_url])
    IN IF ref = NoAdSetRef THEN Raised(a, g)
       ELSE IF resp = "error" THEN Raised(a, sent)
       ELSE Returned(a, sent, Len(g) + 1)

FbAdsStairway_create_adcreative(a, g, adset_index, child_attachments, resp) ==
    LET ref == a.adset_by_index[adset_index]
        sent == Append(g, [Request("creative", "POST", resp # "error")
                              EXCEPT !.ad_account_id = ref.ad_account_id,
                                     !.cards = child_attachments])
    IN IF ref = NoAdSetRef THEN Raised(a, g)
       ELSE IF resp = "error" THEN Raised(a, sent)
       ELSE Returned(a, sent, Len(g) + 1)

FbAdsStairway_create_ad(a, g, adset_index, creative_id, resp) ==
    LET ref == a.adset_by_index[adset_index]
        sent == Append(g, [Request("ad", "POST", resp # "error")
                              EXCEPT !.ad_account_id = ref.ad_account_id,
                                     !.adset_id = ref.adset_id,
                                     !.creative_id = creative_id])
    IN IF ref = NoAdSetRef THEN Raised(a, g)
       ELSE IF resp = "error" THEN Raised(a, sent)
       ELSE Returned(a, sent, Len(g) + 1)

\* creative_id = self._create_adcreative(...); return self._create_ad(...)
FbAdsStairway_creative_then_ad(a, g, adset_index, child_attachments, r1, r2) ==
    LET c == FbAdsStairway_create_adcreative(a, g, adset_index,
                                             child_attachments, r1)
    IN IF c.raised THEN c
       ELSE FbAdsStairway_create_ad(c.ads, c.graph, adset_index, c.value, r2)

FbAdsStairway_create_paid_fb_image_ad(a, g, adset_index, image_hash, r1, r2) ==
    FbAdsStairway_creative_then_ad(a, g, adset_index, <<>>, r1, r2)

\* A create_paid_fb_video_ad that refuses a video without a thumbnail.
FbAdsStairway_create_paid_fb_video_ad_needs_thumbnail(a, g, adset_index, video_id, thumbnail_url, r1, r2) ==
    IF ~thumbnail_url THEN Raised(a, g)
    ELSE WithVideoData(
             FbAdsStairway_creative_then_ad(a, g, adset_index, <<>>, r1, r2),
             g, video_id, "url")

\* video_data gets "image_url" only `if thumbnail_url:`; thumbnail_url is kept
\* here by its truth.
FbAdsStairway_create_paid_fb_video_ad(a, g, adset_index, video_id, thumbnail_url, r1, r2) ==
    WithVideoData(
        FbAdsStairway_creative_then_ad(a, g, adset_index, <<>>, r1, r2),
        g, video_id, IF thumbnail_url THEN "url" ELSE NoField)

\* A carousel card: image_hash and video_id, 0 when the card has none.
Card(image_hash, video_id) == [image_hash |-> image_hash, video_id |-> video_id]

FbAdsStairway_create_paid_fb_homogeneous_carousel_ad(a, g, adset_index, child_attachments, r1, r2) ==
    IF \E i \in DOMAIN child_attachments : child_attachments[i].image_hash = 0
    THEN Raised(a, g)
    ELSE FbAdsStairway_creative_then_ad(a, g, adset_index, child_attachments,
                                        r1, r2)

FbAdsStairway_create_paid_fb_mixed_carousel_ad(a, g, adset_index, child_attachments, r1, r2) ==
    IF \E i \in DOMAIN child_attachments :
          \/ child_attachments[i].video_id # 0 /\ child_attachments[i].image_hash = 0
          \/ child_attachments[i].image_hash = 0 /\ child_attachments[i].video_id = 0
    THEN Raised(a, g)
    ELSE FbAdsStairway_creative_then_ad(a, g, adset_index, child_attachments,
                                        r1, r2)

(* ----------------------------- AdsStairway ------------------------------ *)
\* The accounts act_1 .. act_n as Campaign objects, in the order of the answer.
CampaignsOf(n) == [k \in 1..n |-> [ad_account_id |-> k]]

AdsStairway_get_ad_accounts(a, g, resp, n) ==
    LET sent == Append(g, [Request("accounts", "GET", resp # "error")
                              EXCEPT !.n = IF resp = "error" THEN 0 ELSE n])
    IN IF resp = "error" THEN Raised(a, sent)
       ELSE Returned([a EXCEPT !.campaigns = a.campaigns \o CampaignsOf(n)],
                     sent, n)

AdsStairway_create_campaign_by_index(a, g, index, resp) ==
    IF index >= Len(a.campaigns) THEN Raised(a, g)
    ELSE IF IndexError(a.campaigns, index) THEN Raised(a, g)
    ELSE LET campaign == a.campaigns[Pos(a.campaigns, index)]
             id == Len(g) + 1
             sent == Append(g, [Request("campaign", "POST", resp # "error")
                                   EXCEPT !.ad_account_id = campaign.ad_account_id])
         IN IF resp = "error" THEN Raised(a, sent)
            ELSE Returned([a EXCEPT !.created_campaigns =
                              Append(a.created_campaigns,
                                     [campaign_id |-> id,
                                      ad_account_id |-> campaign.ad_account_id,
                                      daily_budget |-> DAILY_BUDGET])],
                          sent, id)

AdsStairway_create_adset(a, g, index, resp) ==
    IF index >= Len(a.created_campaigns) THEN Raised(a, g)
    ELSE IF IndexError(a.created_campaigns, index) THEN Raised(a, g)
    ELSE LET campaign == a.created_campaigns[Pos(a.created_campaigns, index)]
             id == Len(g) + 1
             sent == Append(g, [Request("adset", "POST", resp # "error")
                                   EXCEPT !.ad_account_id = campaign.ad_account_id,
                                          !.campaign_id = campaign.campaign_id,
                                          !.daily_budget = campaign.daily_budget])
         IN IF resp = "error" THEN Raised(a, sent)
            ELSE Returned([a EXCEPT !.adsets =
                              Append(a.adsets,
                                     [adset_id |-> id,
                                      campaign_id |-> campaign.campaign_id,
                                      ad_account_id |-> campaign.ad_account_id,
                                      daily_budget |-> campaign.daily_budget,
                                      title |-> "Check this out!",
                                      link |-> "youtube.com",
                                      video_id |-> 0, ad_id |-> 0])],
                          sent, id)

\* POST /{page_id}/videos with the page token; the id is kept in the ad set.
AdsStairway_upload_ad_video(a, g, adset_index, video_url, resp) ==
    IF IndexError(a.adsets, adset_index) THEN Raised(a, g)
    ELSE LET id == Len(g) + 1
             sent == Append(g, [Request("upload", "POST", resp # "error")
                                   EXCEPT !.path = video_url])
         IN IF resp = "error" THEN Raised(a, sent)
            ELSE Returned([a EXCEPT !.adsets[Pos(a.adsets, adset_index)].video_id = id],
                          sent, id)

\* POST /{act}/adimages; the hash is kept under the ad set's id.
AdsStairway_upload_ad_image(a, g, adset_index, image_path, resp) ==
    IF IndexError(a.adsets, adset_index) THEN Raised(a, g)
    ELSE LET adset == a.adsets[Pos(a.adsets, adset_index)]
             id == Len(g) + 1
             sent == Append(g, [Request("upload", "POST", resp # "error")
                                   EXCEPT !.ad_account_id = adset.ad_account_id,
                                          !.path = image_path])
         IN IF resp = "error" THEN Raised(a, sent)
            ELSE Returned([a EXCEPT !.image_hash_by_adset_id =
                              [x \in DOMAIN a.image_hash_by_adset_id \cup {adset.adset_id}
                                 |-> IF x = adset.adset_id THEN id
                                     ELSE a.image_hash_by_adset_id[x]]],
                          sent, id)

\* The creative request, then the ad request, of the create_paid_ig_* methods.
AdsStairway_creative_then_ad(a, g, adset_index, r1, r2) ==
    LET adset == a.adsets[Pos(a.adsets, adset_index)]
        creative_id == Len(g) + 1
        ad_id == Len(g) + 2
        sent1 == Append(g, [Request("creative", "POST", r1 # "error")
                               EXCEPT !.ad_account_id = adset.ad_account_id])
        sent2 == Append(sent1, [Request("ad", "POST", r2 # "error")
                                   EXCEPT !.ad_account_id = adset.ad_account_id,
                                          !.adset_id = adset.adset_id,
                                          !.creative_id = creative_id])
    IN IF r1 = "error" THEN Raised(a, sent1)
       ELSE IF r2 = "error" THEN Raised(a, sent2)
       ELSE Returned([a EXCEPT !.adsets[Pos(a.adsets, adset_index)].ad_id = ad_id],
                     sent2, ad_id)

\* Video ad: the creative carries adset.video_id, whatever it is, and
\* "image_url": thumbnail_url, the empty string included.
AdsStairway_create_paid_ig_ad(a, g, adset_index, thumbnail_url, r1, r2) ==
    IF IndexError(a.adsets, adset_index) THEN Raised(a, g)
    ELSE WithVideoData(
             AdsStairway_creative_then_ad(a, g, adset_index, r1, r2),
             g, a.adsets[Pos(a.adsets, adset_index)].video_id,
             IF thumbnail_url THEN "url" ELSE "")

AdsStairway_create_paid_ig_image_ad(a, g, adset_index, r1, r2) ==
    IF IndexError(a.adsets, adset_index) THEN Raised(a, g)
    ELSE IF a.adsets[Pos(a.adsets, adset_index)].adset_id \notin DOMAIN a.image_hash_by_adset_id
    THEN Raised(a, g)
    ELSE AdsStairway_creative_then_ad(a, g, adset_index, r1, r2)

\* main() calls ads.create_paid_ig_carousel_ad, and create_paid_ig_mixed_carousel_ad
\* forwards to it; AdsStairway defines no such method: AttributeError.
AdsStairway_create_paid_ig_carousel_ad(a, g) == Raised(a, g)

AdsStairway_create_paid_ig_mixed_carousel_ad(a, g) ==
    AdsStairway_create_paid_ig_carousel_ad(a, g)

(* ------------------- ads.<method>(...): the object's class -------------- *)
get_ad_accounts(a, g, resp, n) ==
    IF a.kind = "FbAdsStairway" THEN FbAdsStairway_get_ad_accounts(a, g, resp, n)
    ELSE AdsStairway_get_ad_accounts(a, g, resp, n)

create_campaign_by_index(a, g, index, resp) ==
    IF a.kind = "FbAdsStairway"
    THEN FbAdsStairway_create_campaign_by_index(a, g, index, resp)
    ELSE AdsStairway_create_campaign_by_index(a, g, index, resp)

create_adset(a, g, index, resp) ==
    IF a.kind = "FbAdsStairway" THEN FbAdsStairway_create_adset(a, g, index, resp)
    ELSE AdsStairway_create_adset(a, g, index, resp)

upload_ad_image(a, g, adset_index, image_path, resp) ==
    IF a.kind = "FbAdsStairway"
    THEN FbAdsStairway_upload_ad_image(a, g, adset_index, image_path, resp)
    ELSE AdsStairway_upload_ad_image(a, g, adset_index, image_path, resp)

upload_ad_video(a, g, adset_index, video_url, resp) ==
    IF a.kind = "FbAdsStairway"
    THEN FbAdsStairway_upload_ad_video(a, g, adset_index, video_url, resp)
    ELSE AdsStairway_upload_ad_video(a, g, adset_index, video_url, resp)

\* create_paid_fb_image_ad(image_hash=...) / create_paid_ig_image_ad(...)
create_paid_image_ad(a, g, adset_index, image_hash, r1, r2) ==
    IF a.kind = "FbAdsStairway"
    THEN FbAdsStairway_create_paid_fb_image_ad(a, g, adset_index, image_hash, r1, r2)
    ELSE AdsStairway_create_paid_ig_image_ad(a, g, adset_index, r1, r2)

\* create_paid_fb_video_ad(video_id=..., thumbnail_url=...) / create_paid_ig_ad(...)
create_paid_video_ad(a, g, adset_index, video_id, thumbnail_url, r1, r2) ==
    IF a.kind = "FbAdsStairway"
    THEN FbAdsStairway_create_paid_fb_video_ad(a, g, adset_index, video_id,
                                               thumbnail_url, r1, r2)
    ELSE AdsStairway_create_paid_ig_ad(a, g, adset_index, thumbnail_url, r1, r2)

(* ------------------------------- main() -------------------------------- *)
\* The call's end becomes visible: the object, the requests, the outcome.
Return(o) ==
    /\ ads' = o.ads
    /\ graph' = o.graph
    /\ last' = [status |-> IF o.raised THEN "raised" ELSE "ok", value |-> o.value]

\* A step of main() that calls nothing on the stairway.
LocalStep(raised) ==
    /\ last' = [status |-> IF raised THEN "raised" ELSE "ok", value |-> 0]
    /\ UNCHANGED <<ads, graph>>

\* except Exception as e: log_error(...) without the return.
StepResult_no_return(raised, next) == next

\* try: <step> except Exception as e: log_error(...); return
StepResult(raised, next) == IF raised THEN "returned" ELSE next

\* The paths typed at the carousel prompt, as the media type of each.
CardLists == UNION {[1..n -> MediaTypes] : n \in 0..MaxCards}

\* _MutableAdSet(): the object main() writes budget, title and link on.
MutableAdSet == [daily_budget |-> 0, title |-> "", link |-> ""]

NewRun(mode, cards) ==
    [driver |-> "main", mode |-> mode, pc |-> "step1", cards |-> cards,
     image_hash |-> 0, vid |-> 0, thumbnail_url |-> FALSE,
     child_attachments |-> <<>>, adset |-> MutableAdSet]

ApiCaller == [driver |-> "api", indexes |-> Indexes, limit |-> MaxReq]

Runs ==
    {NewRun(mode, <<>>) : mode \in {"video", "image"}}
       \cup {NewRun(mode, cards) :
                mode \in {"carousel_images", "carousel_mixed"}, cards \in CardLists}
       \cup {NewRun("carousel_images", [i \in 1..MaxImages |-> "image"])}
       \cup {ApiCaller}

Main(pc) == run.driver = "main" /\ run.pc = pc

Others == UNCHANGED <<varsVault, varsCalls>>

\* STEP 1
main_step1 ==
    /\ Main("step1")
    /\ \E resp \in Responses, n \in AccountCounts :
          LET o == get_ad_accounts(ads, graph, resp, n)
          IN Return(o) /\ run' = [run EXCEPT !.pc = StepResult(o.raised, "step2")]
    /\ Others

\* STEP 2
main_step2 ==
    /\ Main("step2")
    /\ \E resp \in Responses :
          LET o == create_campaign_by_index(ads, graph, INDEX, resp)
          IN Return(o) /\ run' = [run EXCEPT !.pc = StepResult(o.raised, "step3")]
    /\ Others

\* STEP 3
main_step3 ==
    /\ Main("step3")
    /\ \E resp \in Responses :
          LET o == create_adset(ads, graph, INDEX, resp)
          IN Return(o)
                /\ run' = [run EXCEPT !.pc = StepResult(o.raised, "step3_edit")]
    /\ Others

\* What was typed at the prompts for budget, title and link.
Prompted ==
    {[daily_budget |-> DAILY_BUDGET, title |-> "Check this out!",
      link |-> "https://youtube.com"],
     [daily_budget |-> 2500, title |-> "Sale", link |-> "https://example.com"]}

\* The assignments that send a request to the created ad set as well.
set_adset_fields_updates_remote(a, g, e) ==
    Returned(a, Append(g, [Request("adset", "POST", TRUE)
                              EXCEPT !.daily_budget = e.daily_budget]), e)

\* adset.daily_budget = ...; adset.title = ...; adset.link = ...  The object
\* is the _MutableAdSet that FbAdsStairway.create_adset returned, or the
\* schemas.AdSet that AdsStairway.create_adset appended to self.adsets.
set_adset_fields(a, g, e) ==
    IF a.kind = "FbAdsStairway" THEN Returned(a, g, e)
    ELSE Returned([a EXCEPT !.adsets[Len(a.adsets)].daily_budget = e.daily_budget,
                            !.adsets[Len(a.adsets)].title = e.title,
                            !.adsets[Len(a.adsets)].link = e.link],
                  g, e)

\* STEP 3, after create_adset has returned
main_step3_edit ==
    /\ Main("step3_edit")
    /\ \E e \in Prompted :
          LET o == set_adset_fields(ads, graph, e)
          IN /\ ads' = o.ads
             /\ graph' = o.graph
             /\ run' = [run EXCEPT !.pc = "step4", !.adset = o.value]
             /\ UNCHANGED last
    /\ Others

\* STEP 4: the file(s) must exist and have the type the mode asks for; the
\* carousel prompt raises for fewer than 2 paths.
PathsAccepted(mode, cards, found) ==
    /\ found
    /\ mode \in {"carousel_images", "carousel_mixed"} => Len(cards) >= 2
    /\ mode = "carousel_images" => \A i \in DOMAIN cards : cards[i] = "image"

main_step4 ==
    /\ Main("step4")
    /\ \E found \in BOOLEAN :
          LET raised == ~PathsAccepted(run.mode, run.cards, found)
          IN LocalStep(raised)
                /\ run' = [run EXCEPT !.pc = StepResult(raised, "step5")]
    /\ Others

\* What save_ad_media gives back for a video.
MediaResults == {"raises", "no_video_url", "no_thumbnail_url", "urls"}

\* Video flow, STEP 5: host the video; a missing thumbnail_url is tolerated.
main_video_step5 ==
    /\ Main("step5") /\ run.mode = "video"
    /\ \E media \in MediaResults :
          LET raised == media \in {"raises", "no_video_url"}
          IN LocalStep(raised)
                /\ run' = [run EXCEPT !.pc = StepResult(raised, "step6"),
                                      !.thumbnail_url = (media = "urls")]
    /\ Others

\* Video flow, STEP 6
main_video_step6 ==
    /\ Main("step6") /\ run.mode = "video"
    /\ \E resp \in Responses :
          LET o == upload_ad_video(ads, graph, INDEX, 1, resp)
          IN Return(o)
                /\ run' = [run EXCEPT !.pc = StepResult(o.raised, "step7"),
                                      !.vid = o.value]
    /\ Others

\* Video flow, STEP 7
main_video_step7 ==
    /\ Main("step7") /\ run.mode = "video"
    /\ \E r1 \in Responses, r2 \in Responses :
          LET o == create_paid_video_ad(ads, graph, INDEX, run.vid,
                                        run.thumbnail_url, r1, r2)
          IN Return(o) /\ run' = [run EXCEPT !.pc = StepResult(o.raised, "done")]
    /\ Others

\* Image flow, STEP 5
main_image_step5 ==
    /\ Main("step5") /\ run.mode = "image"
    /\ \E resp \in Responses :
          LET o == upload_ad_image(ads, graph, INDEX, 1, resp)
          IN Return(o)
                /\ run' = [run EXCEPT !.pc = StepResult(o.raised, "step6"),
                                      !.image_hash = o.value]
    /\ Others

\* Image flow, STEP 6
main_image_step6 ==
    /\ Main("step6") /\ run.mode = "image"
    /\ \E r1 \in Responses, r2 \in Responses :
          LET o == create_paid_image_ad(ads, graph, INDEX, run.image_hash, r1, r2)
          IN Return(o) /\ run' = [run EXCEPT !.pc = StepResult(o.raised, "done")]
    /\ Others

\* The paths typed at the prompt, each named by its position in the input.
Paths(n) == [i \in 1..n |-> i]

\* The upload loop over the carousel's images: one upload_ad_image per path,
\* each begun when the one before has returned; the hashes are appended in
\* that order (FbAdsStairway.upload_ad_images; the loop of main() for
\* AdsStairway).
RECURSIVE upload_carousel_images_newest_first(_, _, _, _)
upload_carousel_images_newest_first(a, g, image_paths, resps) ==
    IF image_paths = <<>> THEN Returned(a, g, <<>>)
    ELSE LET o == upload_ad_image(a, g, INDEX, Head(image_paths), Head(resps))
             rest == upload_carousel_images_newest_first(
                         o.ads, o.graph, Tail(image_paths), Tail(resps))
         IN IF o.raised THEN o
            ELSE IF rest.raised THEN rest
            ELSE Returned(rest.ads, rest.graph,
                          rest.value \o <<Card(o.value, 0)>>)

RECURSIVE upload_carousel_images(_, _, _, _)
upload_carousel_images(a, g, image_paths, resps) ==
    IF image_paths = <<>> THEN Returned(a, g, <<>>)
    ELSE LET o == upload_ad_image(a, g, INDEX, Head(image_paths), Head(resps))
             rest == upload_carousel_images(o.ads, o.graph, Tail(image_paths),
                                            Tail(resps))
         IN IF o.raised THEN o
            ELSE IF rest.raised THEN rest
            ELSE Returned(rest.ads, rest.graph,
                          <<Card(o.value, 0)>> \o rest.value)

\* A STEP 5 that uploads every image whatever the answers, and goes on to
\* STEP 6 with the hashes it got.
main_carousel_images_step5_uploads_all ==
    /\ Main("step5") /\ run.mode = "carousel_images"
    /\ \E resps \in [1..Len(run.cards) -> Responses] :
          LET sent == [i \in 1..Len(run.cards) |->
                          upload_ad_image(ads, graph, INDEX, i, resps[i])]
              g == graph \o [i \in 1..Len(run.cards) |->
                                sent[i].graph[Len(sent[i].graph)]]
              o == Returned(ads, g, [i \in 1..Len(run.cards) |->
                                        Card(Len(graph) + i, 0)])
          IN Return(o)
                /\ run' = [run EXCEPT !.pc = "step6", !.child_attachments = o.value]
    /\ Others

\* Images carousel, STEP 5
main_carousel_images_step5 ==
    /\ Main("step5") /\ run.mode = "carousel_images"
    /\ \E resps \in [1..Len(run.cards) -> Responses] :
          LET o == upload_carousel_images(ads, graph, Paths(Len(run.cards)), resps)
          IN Return(o)
                /\ run' = [run EXCEPT !.pc = StepResult(o.raised, "step6"),
                                      !.child_attachments =
                                          IF o.raised THEN <<>> ELSE o.value]
    /\ Others

\* Images carousel, STEP 6
main_carousel_images_step6 ==
    /\ Main("step6") /\ run.mode = "carousel_images"
    /\ \E r1 \in Responses, r2 \in Responses :
          LET o == IF ads.kind = "FbAdsStairway"
                   THEN FbAdsStairway_create_paid_fb_homogeneous_carousel_ad(
                            ads, graph, INDEX, run.child_attachments, r1, r2)
                   ELSE AdsStairway_create_paid_ig_carousel_ad(ads, graph)
          IN Return(o) /\ run' = [run EXCEPT !.pc = StepResult(o.raised, "done")]
    /\ Others

\* What happens to one card of the mixed carousel: whether save_ad_media
\* gives both urls, the answer to the video upload, whether the thumbnail
\* can be fetched, and the answer to the image upload.
CardEvents ==
    [media : BOOLEAN, video : Responses, thumb : BOOLEAN, image : Responses]

\* One pass of the loop body for a card.
upload_carousel_card(a, g, type, path, ev) ==
    IF type = "image"
    THEN LET h == upload_ad_image(a, g, INDEX, path, ev.image)
         IN IF h.raised THEN h ELSE Returned(h.ads, h.graph, Card(h.value, 0))
    ELSE IF ~ev.media THEN Raised(a, g)
    ELSE LET v == upload_ad_video(a, g, INDEX, path, ev.video)
             h == upload_ad_image(v.ads, v.graph, INDEX, path, ev.image)
         IN IF v.raised THEN v
            \* AdsStairway.upload_ad_image has no image_url parameter: TypeError
            ELSE IF a.kind = "AdsStairway" THEN Raised(v.ads, v.graph)
            ELSE IF ~ev.thumb THEN Raised(v.ads, v.graph)
            ELSE IF h.raised THEN h
            ELSE Returned(h.ads, h.graph, Card(h.value, v.value))

RECURSIVE upload_carousel_media(_, _, _, _, _)
upload_carousel_media(a, g, cards, paths, evs) ==
    IF cards = <<>> THEN Returned(a, g, <<>>)
    ELSE LET o == upload_carousel_card(a, g, Head(cards), Head(paths), Head(evs))
             rest == upload_carousel_media(o.ads, o.graph, Tail(cards),
                                           Tail(paths), Tail(evs))
         IN IF o.raised THEN o
            ELSE IF rest.raised THEN rest
            ELSE Returned(rest.ads, rest.graph, <<o.value>> \o rest.value)

\* Mixed carousel, STEP 5
main_carousel_mixed_step5 ==
    /\ Main("step5") /\ run.mode = "carousel_mixed"
    /\ \E evs \in [1..Len(run.cards) -> CardEvents] :
          LET o == upload_carousel_media(ads, graph, run.cards,
                                         Paths(Len(run.cards)), evs)
          IN Return(o)
                /\ run' = [run EXCEPT !.pc = StepResult(o.raised, "step6"),
                                      !.child_attachments =
                                          IF o.raised THEN <<>> ELSE o.value]
    /\ Others

\* Mixed carousel, STEP 6
main_carousel_mixed_step6 ==
    /\ Main("step6") /\ run.mode = "carousel_mixed"
    /\ \E r1 \in Responses, r2 \in Responses :
          LET o == IF ads.kind = "FbAdsStairway"
                   THEN FbAdsStairway_create_paid_fb_mixed_carousel_ad(
                            ads, graph, INDEX, run.child_attachments, r1, r2)
                   ELSE AdsStairway_create_paid_ig_mixed_carousel_ad(ads, graph)
          IN Return(o) /\ run' = [run EXCEPT !.pc = StepResult(o.raised, "done")]
    /\ Others

(* --------------- any other caller of the stairway's methods ------------- *)
\* A call whose requests fit the bound becomes visible.
ApiCall(o) ==
    /\ run.driver = "api"
    /\ Len(o.graph) <= run.limit
    /\ Return(o)
    /\ UNCHANGED run
    /\ Others

api_get_ad_accounts ==
    \E resp \in Responses, n \in AccountCounts :
       ApiCall(get_ad_accounts(ads, graph, resp, n))

api_create_campaign_by_index ==
    /\ run.driver = "api"
    /\ \E index \in run.indexes, resp \in Responses :
          ApiCall(create_campaign_by_index(ads, graph, index, resp))

api_create_adset ==
    /\ run.driver = "api"
    /\ \E index \in run.indexes, resp \in Responses :
          ApiCall(create_adset(ads, graph, index, resp))

api_upload_ad_image ==
    /\ run.driver = "api"
    /\ \E index \in run.indexes, resp \in Responses :
          ApiCall(upload_ad_image(ads, graph, index, 1, resp))

api_upload_ad_video ==
    /\ run.driver = "api"
    /\ \E index \in run.indexes, resp \in Responses :
          ApiCall(upload_ad_video(ads, graph, index, 1, resp))

api_create_paid_image_ad ==
    /\ run.driver = "api"
    /\ \E index \in run.indexes, r1 \in Responses, r2 \in Responses :
          ApiCall(create_paid_image_ad(ads, graph, index, 0, r1, r2))

api_create_paid_video_ad ==
    /\ run.driver = "api"
    /\ \E index \in run.indexes, r1 \in Responses, r2 \in Responses :
          ApiCall(create_paid_video_ad(ads, graph, index, 0, FALSE, r1, r2))

VaultAtRest ==
    /\ meta_token = <<>>
    /\ tx = [w \in Writers |-> IdleTx]
    /\ nTx = 0
    /\ rd = IdleRd

InitPipe ==
    /\ \E kind \in Kinds : ads = NewStairway(kind)
    /\ run \in Runs
    /\ graph = <<>>
    /\ last = NoCall
    /\ VaultAtRest
    /\ CallsAtRest

NextPipe ==
    \/ main_step1
    \/ main_step2
    \/ main_step3
    \/ main_step3_edit
    \/ main_step4
    \/ main_video_step5
    \/ main_video_step6
    \/ main_video_step7
    \/ main_image_step5
    \/ main_image_step6
    \/ main_carousel_images_step5
    \/ main_carousel_images_step6
    \/ main_carousel_mixed_step5
    \/ main_carousel_mixed_step6
    \/ api_get_ad_accounts
    \/ api_create_campaign_by_index
    \/ api_create_adset
    \/ api_upload_ad_image
    \/ api_upload_ad_video
    \/ api_create_paid_image_ad
    \/ api_create_paid_video_ad

SpecPipe == InitPipe /\ [][NextPipe]_vars

(***************************************************************************)
(* Claims about the ad pipelines                                           *)
(***************************************************************************)
Stages == <<"accounts", "campaign", "adset", "upload", "creative", "ad">>

StageNo(stage) == CHOOSE i \in 1..Len(Stages) : Stages[i] = stage

\* The requests of a stage sent before the k-th request and answered without
\* error.
OkBefore(k, stage) ==
    {j \in 1..(k - 1) : graph[j].stage = stage /\ graph[j].ok}

\* C8: no request of a stage is sent unless the stage it depends on has
\* succeeded before in the run: a campaign request goes to a discovered
\* account, an ad-set request names a created campaign, upload and creative
\* requests follow a created ad set, an ad request names a created ad set and
\* the creative created just before it; and in a run of main() the stages come
\* in the order accounts, campaign, ad set, upload, creative, ad, each after a
\* success of the one before.
C8_StagesInOrder ==
    \A k \in 1..Len(graph) :
       LET r == graph[k]
       IN /\ r.stage = "campaign" =>
                \E j \in OkBefore(k, "accounts") : r.ad_account_id \in 1..graph[j].n
          /\ r.stage = "adset" => r.campaign_id \in OkBefore(k, "campaign")
          /\ r.stage \in {"upload", "creative"} => OkBefore(k, "adset") # {}
          /\ r.stage = "ad" =>
                /\ r.adset_id \in OkBefore(k, "adset")
                /\ r.creative_id = k - 1
                /\ r.creative_id \in OkBefore(k, "creative")
          /\ run.driver = "main" =>
                /\ k > 1 => StageNo(r.stage) >= StageNo(graph[k - 1].stage)
                /\ StageNo(r.stage) > 1 =>
                      OkBefore(k, Stages[StageNo(r.stage) - 1]) # {}

\* C8 witness: a run of main() went through all six stages.
C8_Witness ==
    /\ run.driver = "main"
    /\ run.pc = "done"
    /\ last.status = "ok"
    /\ \A i \in 1..Len(Stages) : OkBefore(Len(graph) + 1, Stages[i]) # {}

\* C9: in a run of main(), once a step has failed no further request is sent:
\* a request answered with an error is the last request of the run, every
\* stage but the upload is requested at most once, and no request deletes
\* anything.
C9_RunStopsAtFailedStage ==
    /\ [](run.driver = "main" =>
            /\ \A k \in 1..Len(graph) :
                  /\ graph[k].method \in {"GET", "POST"}
                  /\ ~graph[k].ok => k = Len(graph)
            /\ \A i \in {1, 2, 3, 5, 6} :
                  Cardinality({k \in 1..Len(graph) : graph[k].stage = Stages[i]}) <= 1)
    /\ [][(run.driver = "main" /\ last.status = "raised") => graph' = graph]_vars

\* C9 witness: the creative request of a run of main() failed after the
\* campaign, the ad set and the upload had been created; the run has returned.
C9_Witness ==
    /\ run.driver = "main"
    /\ run.pc = "returned"
    /\ last.status = "raised"
    /\ Len(graph) >= 5
    /\ graph[Len(graph)].stage = "creative"
    /\ ~graph[Len(graph)].ok
    /\ \A i \in 2..4 : OkBefore(Len(graph), Stages[i]) # {}

(***************************************************************************)
(* The completion poller: _wait_until_media_finished                       *)
(***************************************************************************)
MAX_RETRIES == 20

\* What GET /{creation_id}?fields=status_code answers: the error envelope, or
\* a status_code.
StatusResponses == {"error", "FINISHED", "ERROR", "IN_PROGRESS", "EXPIRED", "PUBLISHED"}

\* The two pollers: _wait_until_media_finished, which only waits, and the
\* ig_campaign endpoint publish_video_instagram, whose loop sends the
\* media_publish request when it sees FINISHED.
Pollers == {"_wait_until_media_finished", "publish_video_instagram"}

\* What POST /{ig_user_id}/media_publish answers.
PublishResponses == {"id", "error"}

\* The call before its first poll.  polls counts the GET requests; in_progress
\* and other count the answers IN_PROGRESS and EXPIRED/PUBLISHED; terminal is
\* the first answer that was none of these; publishes counts the
\* media_publish requests.
NewPoll(fn) ==
    [fn |-> fn, pc |-> "loop", polls |-> 0, in_progress |-> 0, other |-> 0,
     terminal |-> "none", publishes |-> 0, result |-> "none", detail |-> ""]

\* The loop body that takes status ERROR for one more status to wait on.
PollBody_error_not_checked(status_resp) ==
    IF status_resp = "error" THEN [result |-> "HTTPException", detail |-> "error"]
    ELSE IF status_resp = "FINISHED" THEN [result |-> "return", detail |-> ""]
    ELSE [result |-> "sleep", detail |-> ""]

\* The body of the for loop: how one answer ends the call or lets it go on.
\* (publish_video_instagram words the detail "Video failed to process".)
PollBody(status_resp) ==
    IF status_resp = "error" THEN [result |-> "HTTPException", detail |-> "error"]
    ELSE IF status_resp = "FINISHED" THEN [result |-> "return", detail |-> ""]
    ELSE IF status_resp = "ERROR"
    THEN [result |-> "HTTPException", detail |-> "Media failed to process"]
    ELSE [result |-> "sleep", detail |-> ""]

\* What the poller has observed, whatever it makes of it.
Observe(p, status_resp) ==
    [p EXCEPT !.polls = @ + 1,
              !.in_progress = IF status_resp = "IN_PROGRESS" THEN @ + 1 ELSE @,
              !.other = IF status_resp \in {"EXPIRED", "PUBLISHED"} THEN @ + 1 ELSE @,
              !.terminal = IF status_resp \in {"error", "FINISHED", "ERROR"}
                           THEN status_resp ELSE @]

\* A loop that goes round once more than range(MAX_RETRIES).
LoopExhausted_one_more(p) == p.polls = MAX_RETRIES + 1

\* `for _ in range(MAX_RETRIES)` has no pass left.
LoopExhausted(p) == p.polls = MAX_RETRIES

\* publish_video_instagram on FINISHED: the media_publish request, whose error
\* envelope is raised and whose id is stored and returned.
PublishOnFinished(p, publish_resp) ==
    IF publish_resp = "error"
    THEN [p EXCEPT !.pc = "done", !.publishes = @ + 1,
                   !.result = "HTTPException", !.detail = "error"]
    ELSE [p EXCEPT !.pc = "done", !.publishes = @ + 1, !.result = "return"]

\* A pass that takes an error envelope for one more status to wait on.
wait_until_media_finished_poll_envelope_pending ==
    /\ poll.pc = "loop"
    /\ \E status_resp \in StatusResponses, publish_resp \in PublishResponses :
          LET b == PollBody(IF status_resp = "error" THEN "IN_PROGRESS"
                            ELSE status_resp)
              seen == Observe(poll, status_resp)
          IN poll' =
                IF b.result = "return" /\ poll.fn = "publish_video_instagram"
                THEN PublishOnFinished(seen, publish_resp)
                ELSE IF b.result # "sleep"
                THEN [seen EXCEPT !.pc = "done", !.result = b.result,
                                  !.detail = b.detail]
                ELSE IF LoopExhausted(seen)
                THEN [seen EXCEPT !.pc = "done", !.result = "HTTPException",
                                  !.detail = "Media not ready after multiple attempts"]
                ELSE seen
    /\ UNCHANGED <<varsVault, varsPipe, varsSubmit, varsBuild, varsShared>>

\* One pass of the loop; after the last pass the loop is left and the timeout
\* is raised.
wait_until_media_finished_poll ==
    /\ poll.pc = "loop"
    /\ \E status_resp \in StatusResponses, publish_resp \in PublishResponses :
          LET b == PollBody(status_resp)
              seen == Observe(poll, status_resp)
          IN poll' =
                IF b.result = "return" /\ poll.fn = "publish_video_instagram"
                THEN PublishOnFinished(seen, publish_resp)
                ELSE IF b.result # "sleep"
                THEN [seen EXCEPT !.pc = "done", !.result = b.result,
                                  !.detail = b.detail]
                ELSE IF LoopExhausted(seen)
                THEN [seen EXCEPT !.pc = "done", !.result = "HTTPException",
                                  !.detail = "Media not ready after multiple attempts"]
                ELSE seen
    /\ UNCHANGED <<varsVault, varsPipe, varsSubmit, varsBuild, varsShared>>

InitPoll ==
    /\ \E fn \in Pollers : poll = NewPoll(fn)
    /\ VaultAtRest
    /\ PipeAtRest
    /\ SubmitAtRest
    /\ BuildAtRest
    /\ SharedAtRest

NextPoll == wait_until_media_finished_poll

SpecPoll == InitPoll /\ [][NextPoll]_vars

(***************************************************************************)
(* Claims about the completion poller                                      *)
(***************************************************************************)
\* C10: the poller returns exactly when a poll observed FINISHED with no
\* ERROR before it, within MAX_RETRIES polls; it fails with "Media failed to
\* process" exactly when a poll observed ERROR, at that poll; it fails with
\* "Media not ready after multiple attempts" exactly when MAX_RETRIES polls
\* in a row observed a status that is neither FINISHED nor ERROR; and it
\* polls no more once it has ended.  (In publish_video_instagram the return
\* also needs the media_publish request to be answered without error.)
C10_PollerOutcome ==
    /\ poll.result = "return" <=>
          (/\ poll.terminal = "FINISHED"
           /\ poll.polls <= MAX_RETRIES
           /\ ~(poll.publishes = 1 /\ poll.result = "HTTPException"))
    /\ (poll.result = "HTTPException" /\ poll.detail = "Media failed to process")
          <=> poll.terminal = "ERROR"
    /\ (poll.result = "HTTPException"
           /\ poll.detail = "Media not ready after multiple attempts")
          <=> (poll.terminal = "none" /\ poll.in_progress + poll.other = MAX_RETRIES)
    /\ poll.terminal # "none" =>
          (poll.pc = "done" /\ poll.in_progress + poll.other = poll.polls - 1)
    /\ poll.polls <= MAX_RETRIES

\* C10 witness: FINISHED was observed by the last of the MAX_RETRIES polls,
\* after waiting through the others, and the poller returned.
C10_Witness ==
    /\ poll.result = "return"
    /\ poll.polls = MAX_RETRIES
    /\ poll.other > 0
    /\ poll.in_progress > 0

\* C11: the number of status requests is the position of the first terminal
\* status: two waiting answers and then FINISHED make exactly 3 requests; no
\* status request follows a terminal status; and the timeout is raised after
\* exactly MAX_RETRIES requests, never more.
C11_PollCount ==
    /\ [](/\ poll.terminal # "none" =>
               (poll.pc = "done" /\ poll.polls = poll.in_progress + poll.other + 1)
          /\ (poll.terminal = "FINISHED" /\ poll.in_progress + poll.other = 2)
                => poll.polls = 3
          /\ poll.detail = "Media not ready after multiple attempts"
                => (poll.polls = MAX_RETRIES /\ poll.terminal = "none")
          /\ poll.polls <= MAX_RETRIES
          /\ poll.publishes <= 1)
    /\ [][poll.pc = "done" => poll' = poll]_vars

\* C11 witness: two waiting answers, then FINISHED at the third request, and
\* the poller has ended.
C11_Witness ==
    /\ poll.pc = "done"
    /\ poll.terminal = "FINISHED"
    /\ poll.in_progress = 2
    /\ poll.polls = 3

(***************************************************************************)
(* Submitting to the Graph API: the organic containers of organic_poster   *)
(* and the requests of the stairways                                       *)
(***************************************************************************)
\* range(1, 6) of the two retry loops, and the factors of attempt in their
\* sleeps.
SUBMIT_ATTEMPTS == 5
CHILD_DELAY == 4
PARENT_DELAY == 5

\* What a submission is answered: a payload with the new id, an error whose
\* envelope has is_transient set, or any other error.
SubmitResponses == {"id", "transient", "error"}

\* The stages of the ad pipelines, whose requests go through the stairways.
AdStages == {"accounts", "campaign", "adset", "upload", "creative", "ad"}

\* The calls that submit: the organic uploads of organic_poster and a request
\* of either stairway.
OrganicUploads == {"upload_carousel_instagram", "upload_video_instagram",
                   "upload_photo_instagram"}
StairwayRequests == {"FbAdsStairway._req", "AdsStairway._post_form"}

\* post.carousel_items: CarouselItem.type is "image" or "video".
ItemLists ==
    {<<>>} \cup UNION {[1..n -> MediaTypes] : n \in 1..MaxCards}

\* A call as it is entered; the OrganicPost is new: creation_id and
\* instagram_post_id are None (0 here).  requests is what was sent, in order.
NewSub(fn, stage, items) ==
    [fn |-> fn, stage |-> stage, pc |-> "called", items |-> items,
     idx |-> 0, attempt |-> 0, child_creation_ids |-> <<>>,
     creation_id |-> 0, instagram_post_id |-> 0,
     requests |-> <<>>, result |-> "none", status_code |-> 0,
     published |-> "none"]

Subs ==
    {NewSub("upload_carousel_instagram", "container", items) : items \in ItemLists}
       \cup {NewSub(fn, "container", <<>>) :
                fn \in OrganicUploads \ {"upload_carousel_instagram"}}
       \cup {NewSub(fn, stage, <<>>) : fn \in StairwayRequests, stage \in AdStages}

\* A request and its answer; slept is the time.sleep that followed it, and
\* children the "children" of a parent container's payload.
Sent(kind, idx, attempt, resp, slept) ==
    [kind |-> kind, idx |-> idx, attempt |-> attempt, resp |-> resp,
     slept |-> slept, polls |-> 0, children |-> <<>>]

\* The id of the entity a request creates: the request's position.
NewId(s) == Len(s.requests) + 1

HTTPException(s, status_code) ==
    [s EXCEPT !.pc = "done", !.result = "raised", !.status_code = status_code]

\* A sleep that does not grow with the attempt.
Backoff_fixed(attempt, delay) == delay

\* wait = attempt * 4 (child loop), attempt * 5 (parent loop)
Backoff(attempt, delay) == attempt * delay

\* A loop that takes every error for a transient one.
RetryBody_every_error_transient(resp, attempt, delay) ==
    IF resp = "id" THEN [next |-> "break", sleep |-> 0]
    ELSE [next |-> "continue", sleep |-> Backoff(attempt, delay)]

\* The body of `for attempt in range(1, 6)`: no error ends the loop, a
\* transient error sleeps and goes on, any other error is raised.
RetryBody(resp, attempt, delay) ==
    IF resp = "id" THEN [next |-> "break", sleep |-> 0]
    ELSE IF resp = "transient"
    THEN [next |-> "continue", sleep |-> Backoff(attempt, delay)]
    ELSE [next |-> "raise", sleep |-> 0]

\* The status answers one wait of a container gets, in order.
StatusRuns ==
    {<<"IN_PROGRESS", "IN_PROGRESS", "FINISHED">>,
     <<"IN_PROGRESS", "ERROR">>, <<"error">>,
     [k \in 1..MAX_RETRIES |-> "IN_PROGRESS"]}

\* _wait_until_media_finished run on the answers from the k-th on.
RECURSIVE wait_until_media_finished(_, _)
wait_until_media_finished(statuses, k) ==
    IF k > MAX_RETRIES
    THEN [result |-> "HTTPException", polls |-> MAX_RETRIES]
    ELSE IF PollBody(statuses[k]).result # "sleep"
    THEN [result |-> PollBody(statuses[k]).result, polls |-> k]
    ELSE wait_until_media_finished(statuses, k + 1)

\* The status requests of one wait, as one entry of requests.
Waited(idx, statuses) ==
    [Sent("status", idx, 0, "", 0) EXCEPT
        !.resp = wait_until_media_finished(statuses, 1).result,
        !.polls = wait_until_media_finished(statuses, 1).polls]

\* upload_carousel_instagram up to its first loop: carousel_items not set is
\* a 400 before any request.
upload_carousel_instagram_enter ==
    /\ sub.pc = "called"
    /\ sub.fn = "upload_carousel_instagram"
    /\ sub' = IF sub.items = <<>>
              THEN HTTPException(sub, 400)
              ELSE [sub EXCEPT !.pc = "children", !.idx = 1, !.attempt = 1]
    /\ UNCHANGED <<varsVault, varsPipe, varsPoll, varsBuild, varsShared>>

\* STEP 1, one pass of the retry loop of the child at idx.
upload_carousel_instagram_child ==
    /\ sub.pc = "children"
    /\ \E resp \in SubmitResponses :
          LET b == RetryBody(resp, sub.attempt, CHILD_DELAY)
              sent == [sub EXCEPT !.requests =
                          Append(@, Sent("child", sub.idx, sub.attempt, resp, b.sleep))]
          IN sub' =
                CASE b.next = "break" ->
                       [sent EXCEPT
                          !.child_creation_ids = Append(@, NewId(sub)),
                          !.pc = IF sub.idx = Len(sub.items) THEN "wait" ELSE @,
                          !.idx = IF sub.idx = Len(sub.items) THEN 1 ELSE @ + 1,
                          !.attempt = 1]
                  [] b.next = "continue" ->
                       IF sub.attempt = SUBMIT_ATTEMPTS
                       THEN HTTPException(sent, 500)
                       ELSE [sent EXCEPT !.attempt = @ + 1]
                  [] b.next = "raise" -> HTTPException(sent, 400)
    /\ UNCHANGED <<varsVault, varsPipe, varsPoll, varsBuild, varsShared>>

\* A wait that has the child created again when it did not see FINISHED.
upload_carousel_instagram_wait_resubmits ==
    /\ sub.pc = "wait"
    /\ \E statuses \in StatusRuns :
          LET sent == [sub EXCEPT !.requests = Append(@, Waited(sub.idx, statuses))]
          IN sub' =
                IF wait_until_media_finished(statuses, 1).result # "return"
                THEN [sent EXCEPT !.pc = "children", !.idx = Len(sub.items),
                                  !.attempt = 1]
                ELSE IF sub.idx = Len(sub.child_creation_ids)
                THEN [sent EXCEPT !.pc = "parent", !.idx = 0, !.attempt = 1]
                ELSE [sent EXCEPT !.idx = @ + 1]
    /\ UNCHANGED <<varsVault, varsPipe, varsPoll, varsBuild, varsShared>>

\* STEP 2, the wait for the child at idx.
upload_carousel_instagram_wait ==
    /\ sub.pc = "wait"
    /\ \E statuses \in StatusRuns :
          LET sent == [sub EXCEPT !.requests = Append(@, Waited(sub.idx, statuses))]
          IN sub' =
                IF wait_until_media_finished(statuses, 1).result # "return"
                THEN HTTPException(sent, 400)
                ELSE IF sub.idx = Len(sub.child_creation_ids)
                THEN [sent EXCEPT !.pc = "parent", !.idx = 0, !.attempt = 1]
                ELSE [sent EXCEPT !.idx = @ + 1]
    /\ UNCHANGED <<varsVault, varsPipe, varsPoll, varsBuild, varsShared>>

\* A parent request that does not wait for the children to finish.
upload_carousel_instagram_parent_before_wait ==
    /\ sub.pc \in {"wait", "parent"}
    /\ \E resp \in SubmitResponses :
          LET b == RetryBody(resp, sub.attempt, PARENT_DELAY)
              sent == [sub EXCEPT !.requests =
                          Append(@, [Sent("parent", 0, sub.attempt, resp, b.sleep)
                                       EXCEPT !.children = sub.child_creation_ids])]
          IN sub' =
                CASE b.next = "break" ->
                       [sent EXCEPT !.creation_id = NewId(sub), !.pc = "done",
                                    !.result = "returned"]
                  [] b.next = "continue" ->
                       IF sub.attempt = SUBMIT_ATTEMPTS
                       THEN HTTPException(sent, 500)
                       ELSE [sent EXCEPT !.attempt = @ + 1]
                  [] b.next = "raise" -> HTTPException(sent, 400)
    /\ UNCHANGED <<varsVault, varsPipe, varsPoll, varsBuild, varsShared>>

\* STEP 3, one pass of the retry loop of the parent container.
upload_carousel_instagram_parent ==
    /\ sub.pc = "parent"
    /\ \E resp \in SubmitResponses :
          LET b == RetryBody(resp, sub.attempt, PARENT_DELAY)
              sent == [sub EXCEPT !.requests =
                          Append(@, [Sent("parent", 0, sub.attempt, resp, b.sleep)
                                       EXCEPT !.children = sub.child_creation_ids])]
          IN sub' =
                CASE b.next = "break" ->
                       [sent EXCEPT !.creation_id = NewId(sub), !.pc = "done",
                                    !.result = "returned"]
                  [] b.next = "continue" ->
                       IF sub.attempt = SUBMIT_ATTEMPTS
                       THEN HTTPException(sent, 500)
                       ELSE [sent EXCEPT !.attempt = @ + 1]
                  [] b.next = "raise" -> HTTPException(sent, 400)
    /\ UNCHANGED <<varsVault, varsPipe, varsPoll, varsBuild, varsShared>>

\* upload_video_instagram / upload_photo_instagram: one POST /media, any
\* error envelope is raised.
upload_single_instagram ==
    /\ sub.pc = "called"
    /\ sub.fn \in {"upload_video_instagram", "upload_photo_instagram"}
    /\ \E resp \in SubmitResponses :
          LET sent == [sub EXCEPT !.requests =
                          Append(@, Sent("container", 0, 1, resp, 0))]
          IN sub' = IF resp # "id"
                    THEN HTTPException(sent, 400)
                    ELSE [sent EXCEPT !.creation_id = NewId(sub), !.pc = "done",
                                      !.result = "returned"]
    /\ UNCHANGED <<varsVault, varsPipe, varsPoll, varsBuild, varsShared>>

\* A publish that goes on to media_publish whatever the wait ended in.
publish_instagram_whatever_the_wait ==
    /\ sub.pc = "done"
    /\ sub.fn \in OrganicUploads
    /\ sub.published = "none"
    /\ \E statuses \in StatusRuns, publish_resp \in PublishResponses :
          LET waited == [sub EXCEPT !.requests = Append(@, Waited(0, statuses))]
              sent == [waited EXCEPT !.requests =
                          Append(@, Sent("publish", 0, 1, publish_resp, 0))]
          IN sub' =
                IF sub.creation_id = 0
                THEN [sub EXCEPT !.published = "raised"]
                ELSE IF publish_resp = "error"
                THEN [sent EXCEPT !.published = "raised"]
                ELSE [sent EXCEPT !.published = "returned",
                                  !.instagram_post_id = NewId(waited)]
    /\ UNCHANGED <<varsVault, varsPipe, varsPoll, varsBuild, varsShared>>

\* publish_{video,photo,carousel}_instagram, called once the upload has
\* ended: no creation_id is a 400 before any request; else the wait, then the
\* media_publish request.
publish_instagram ==
    /\ sub.pc = "done"
    /\ sub.fn \in OrganicUploads
    /\ sub.published = "none"
    /\ \E statuses \in StatusRuns, publish_resp \in PublishResponses :
          LET waited == [sub EXCEPT !.requests = Append(@, Waited(0, statuses))]
              sent == [waited EXCEPT !.requests =
                          Append(@, Sent("publish", 0, 1, publish_resp, 0))]
          IN sub' =
                IF sub.creation_id = 0
                THEN [sub EXCEPT !.published = "raised"]
                ELSE IF wait_until_media_finished(statuses, 1).result # "return"
                THEN [waited EXCEPT !.published = "raised"]
                ELSE IF publish_resp = "error"
                THEN [sent EXCEPT !.published = "raised"]
                ELSE [sent EXCEPT !.published = "returned",
                                  !.instagram_post_id = NewId(waited)]
    /\ UNCHANGED <<varsVault, varsPipe, varsPoll, varsBuild, varsShared>>

\* FbAdsStairway._req: one request; status >= 400 or an error envelope is
\* raised as RuntimeError, whatever the envelope says.
FbAdsStairway_req(resp) == IF resp = "id" THEN "returned" ELSE "raised"

\* AdsStairway: one _post_form; `if "error" in result: raise Exception`.
AdsStairway_post_form(resp) == IF resp = "id" THEN "returned" ELSE "raised"

stairway_request ==
    /\ sub.pc = "called"
    /\ sub.fn \in StairwayRequests
    /\ \E resp \in SubmitResponses :
          sub' = [sub EXCEPT
                    !.requests = Append(@, Sent(sub.stage, 0, 1, resp, 0)),
                    !.pc = "done",
                    !.result = IF sub.fn = "FbAdsStairway._req"
                               THEN FbAdsStairway_req(resp)
                               ELSE AdsStairway_post_form(resp)]
    /\ UNCHANGED <<varsVault, varsPipe, varsPoll, varsBuild, varsShared>>

InitSubmit ==
    /\ sub \in Subs
    /\ VaultAtRest
    /\ PipeAtRest
    /\ PollAtRest
    /\ BuildAtRest
    /\ SharedAtRest

NextSubmit ==
    \/ upload_carousel_instagram_enter
    \/ upload_carousel_instagram_child
    \/ upload_carousel_instagram_wait
    \/ upload_carousel_instagram_parent
    \/ upload_single_instagram
    \/ publish_instagram
    \/ stairway_request

SpecSubmit == InitSubmit /\ [][NextSubmit]_vars

(***************************************************************************)
(* Claims about submission retry                                           *)
(***************************************************************************)
\* The requests that submit something (the status requests of a wait do not).
Submissions == {k \in DOMAIN sub.requests : sub.requests[k].kind # "status"}

\* The request after the k-th is the next attempt of the same submission.
RetriedAt(k) ==
    /\ k < Len(sub.requests)
    /\ sub.requests[k + 1].kind = sub.requests[k].kind
    /\ sub.requests[k + 1].idx = sub.requests[k].idx
    /\ sub.requests[k + 1].attempt = sub.requests[k].attempt + 1

DelayOf(kind) == IF kind = "parent" THEN PARENT_DELAY ELSE CHILD_DELAY

\* C12: at every stage (account discovery, campaign, ad set, upload,
\* creative, ad, organic container) a submission answered with a transient
\* error is sent again, unless it was the last attempt the ceiling allows: the
\* call does not end on a transient error below the ceiling.
C12_TransientIsRetried ==
    \A k \in Submissions :
       sub.requests[k].resp = "transient" =>
          \/ sub.requests[k].attempt = SUBMIT_ATTEMPTS
          \/ RetriedAt(k)
          \/ (k = Len(sub.requests) /\ sub.pc # "done")

Exhausted ==
    \E k \in Submissions :
       /\ sub.requests[k].kind \in {"child", "parent"}
       /\ sub.requests[k].resp = "transient"
       /\ sub.requests[k].attempt = SUBMIT_ATTEMPTS

\* C14: the sleep after the k-th failed attempt of a submission is k times the
\* delay of its loop; a submission is sent at most SUBMIT_ATTEMPTS = 5 times;
\* and when all attempts fail transiently the call raises, the post's
\* creation_id stays unset and no parent or publish request follows.
C14_LinearBackoffWithCeiling ==
    /\ [](/\ \A k \in Submissions :
                /\ sub.requests[k].attempt <= SUBMIT_ATTEMPTS
                /\ sub.requests[k].kind \in {"child", "parent"} =>
                      sub.requests[k].slept =
                         IF sub.requests[k].resp = "transient"
                         THEN sub.requests[k].attempt * DelayOf(sub.requests[k].kind)
                         ELSE 0
                /\ Cardinality({j \in Submissions :
                                   /\ sub.requests[j].kind = sub.requests[k].kind
                                   /\ sub.requests[j].idx = sub.requests[k].idx})
                      <= SUBMIT_ATTEMPTS
          /\ Exhausted =>
                /\ sub.result = "raised"
                /\ sub.status_code = 500
                /\ sub.creation_id = 0
                /\ sub.instagram_post_id = 0
                /\ sub.requests[Len(sub.requests)].resp = "transient"
                /\ \A k \in Submissions : sub.requests[k].kind # "publish")
    /\ [][Exhausted => sub'.requests = sub.requests]_vars

\* C14 witness: both children were created and waited for, the parent
\* request failed transiently five times with sleeps 5, 10, 15, 20, 25, the
\* upload raised 500, and the publish call that followed sent nothing.
C14_Witness ==
    /\ Exhausted
    /\ Len(sub.child_creation_ids) = 2
    /\ sub.status_code = 500
    /\ sub.published = "raised"
    /\ \A a \in 1..SUBMIT_ATTEMPTS :
          sub.requests[Len(sub.requests) - SUBMIT_ATTEMPTS + a]
             = [Sent("parent", 0, a, "transient", a * PARENT_DELAY)
                   EXCEPT !.children = sub.child_creation_ids]

(***************************************************************************)
(* The carousel creative builders of AdsStairway and FbAdsStairway         *)
(***************************************************************************)
\* Python values: None, and strings by what strip(), upper() and truth make
\* of them.
None == "<None>"

Truthy(s) == s \notin {None, ""}

\* a or b
Or(a, b) == IF Truthy(a) THEN a ELSE b

\* s.strip()
Strip(s) ==
    CASE s = " " -> ""
      [] s = " paused " -> "paused"
      [] OTHER -> s

\* s.upper()
Upper(s) ==
    CASE s = "paused" -> "PAUSED"
      [] s = "active" -> "ACTIVE"
      [] OTHER -> s

\* Carousel requires at least 2 and supports at most 10 child attachments.
MIN_CAROUSEL_CARDS == 2
MAX_CAROUSEL_CARDS == 10

\* The cards of the cover-hash inputs.
CoverCards == 3

DEFAULT_LINK == "https://www.instagram.com/"

Builders ==
    {"create_paid_fb_homogeneous_carousel_ad", "create_paid_fb_mixed_carousel_ad",
     "create_paid_ig_homogeneous_carousel_ad", "create_paid_ig_mixed_carousel_ad_json",
     "_normalize_carousel_attachments", "create_paid_ig_image_ad"}

CarouselBuilders == Builders \ {"create_paid_ig_image_ad"}

\* The builders that take a list of image hashes rather than of dicts.
HashListBuilders == {"create_paid_ig_homogeneous_carousel_ad"}

\* A child attachment as the caller passes it; None is a key left out.
Attachment(type, image_hash, video_id, link) ==
    [type |-> type, image_hash |-> image_hash, video_id |-> video_id, link |-> link]

ShapeCards ==
    {Attachment(type, image_hash, video_id, None) :
        type \in {None, "image", "video"},
        image_hash \in {None, "", " ", "h1"},
        video_id \in {None, "v1"}}

LinkCards == {Attachment(None, "h1", None, link) : link \in {None, "", " ", "L1"}}

Statuses == {"PAUSED", "ACTIVE", " paused ", "DRAFT"}

\* A call of a builder as it is entered.  adset_link is adset.link (AdSet.link
\* is a str), image_hash the hash upload_ad_image stored for the ad set.
NewBuild(builder, child_attachments, link_url, adset_link, image_hash, status) ==
    [pc |-> "called", builder |-> builder, child_attachments |-> child_attachments,
     link_url |-> link_url, adset_link |-> adset_link, image_hash |-> image_hash,
     status |-> status,
     raised |-> FALSE, error |-> "", requests |-> <<>>, cover_hash |-> None,
     normalized |-> <<>>]

\* The calls: the shapes of the cards, the links of each level, the number of
\* cards with each status, and the hash lists of a homogeneous carousel; the
\* lists of card shapes have up to max_cards cards.
Builds(max_cards) ==
    {NewBuild(b, cards, "D", "A", None, "PAUSED") :
        b \in CarouselBuilders,
        cards \in UNION {[1..n -> ShapeCards] : n \in 0..max_cards}}
    \cup
    {NewBuild(b, cards, link_url, adset_link, None, "PAUSED") :
        b \in CarouselBuilders,
        cards \in [1..MIN_CAROUSEL_CARDS -> LinkCards],
        link_url \in {None, "", " ", "D"},
        adset_link \in {"", " ", "A"}}
    \cup
    {NewBuild(b, [i \in 1..n |-> Attachment(None, "h1", None, None)],
              "D", "A", None, status) :
        b \in CarouselBuilders, n \in 0..(MAX_CAROUSEL_CARDS + 1), status \in Statuses}
    \cup
    {NewBuild(b, [i \in 1..CoverCards |-> Attachment(None, hashes[i], None, None)],
              "D", "A", None, "PAUSED") :
        b \in CarouselBuilders, hashes \in [1..CoverCards -> {"h1", "h2", "h3"}]}
    \cup
    {NewBuild("create_paid_ig_image_ad", <<>>, link_url, "A", image_hash, status) :
        link_url \in {"D"}, image_hash \in {None, "h1"}, status \in Statuses}

\* image_hashes: list[str] holds no None.
WellTyped(b) ==
    b.builder \in HashListBuilders =>
       \A i \in DOMAIN b.child_attachments : b.child_attachments[i].image_hash # None

\* A card as it is put into child_attachments of the creative request.
SentCard(link, image_hash, video_id) ==
    [link |-> link, image_hash |-> image_hash, video_id |-> video_id]

\* POST /{act}/adcreatives and POST /{act}/ads as sent.
CreativeRequest(link, cards, ok) ==
    [stage |-> "creative", ok |-> ok, link |-> link, child_attachments |-> cards,
     status |-> None]
AdRequest(status, ok) ==
    [stage |-> "ad", ok |-> ok, link |-> None, child_attachments |-> <<>>,
     status |-> status]

BuildRaised(error, requests) ==
    [raised |-> TRUE, error |-> error, requests |-> requests,
     cover_hash |-> None, normalized |-> <<>>]
BuildReturned(requests) ==
    [raised |-> FALSE, error |-> "", requests |-> requests,
     cover_hash |-> None, normalized |-> <<>>]

First(S) == CHOOSE i \in S : \A j \in S : i <= j

\* A status check that lets every value through.
normalize_status_unchecked(status) ==
    [raised |-> FALSE, value |-> Upper(Strip(Or(status, "")))]

\* normalize_status: (status or "").strip().upper() must be ACTIVE or PAUSED.
normalize_status(status) ==
    [raised |-> Upper(Strip(Or(status, ""))) \notin {"ACTIVE", "PAUSED"},
     value |-> Upper(Strip(Or(status, "")))]

\* FbAdsStairway: _create_adcreative, then _create_ad with the status as the
\* caller gave it.
FbCreativeThenAd(link, cards, status, r1, r2) ==
    IF r1 = "error"
    THEN BuildRaised("RemoteError", <<CreativeRequest(link, cards, FALSE)>>)
    ELSE IF r2 = "error"
    THEN BuildRaised("RemoteError",
                     <<CreativeRequest(link, cards, TRUE), AdRequest(status, FALSE)>>)
    ELSE BuildReturned(<<CreativeRequest(link, cards, TRUE), AdRequest(status, TRUE)>>)

\* AdsStairway: the creative request, then the ad payload, whose
\* normalize_status(status) is evaluated when the creative exists, then the ad
\* request.
IgCreativeThenAd(link, cards, status, r1, r2) ==
    IF r1 = "error"
    THEN BuildRaised("RemoteError", <<CreativeRequest(link, cards, FALSE)>>)
    ELSE IF normalize_status(status).raised
    THEN BuildRaised("status must be ACTIVE or PAUSED",
                     <<CreativeRequest(link, cards, TRUE)>>)
    ELSE IF r2 = "error"
    THEN BuildRaised("RemoteError",
                     <<CreativeRequest(link, cards, TRUE),
                       AdRequest(normalize_status(status).value, FALSE)>>)
    ELSE BuildReturned(<<CreativeRequest(link, cards, TRUE),
                         AdRequest(normalize_status(status).value, TRUE)>>)

\* item = dict(c); item.setdefault("link", link_url)
FbItem(c, link_url) ==
    SentCard(IF c.link = None THEN link_url ELSE c.link, c.image_hash, c.video_id)

create_paid_fb_homogeneous_carousel_ad(child_attachments, link_url, status, r1, r2) ==
    LET cleaned == [i \in DOMAIN child_attachments |->
                       FbItem(child_attachments[i], link_url)]
    IN IF \E i \in DOMAIN cleaned : ~Truthy(cleaned[i].image_hash)
       THEN BuildRaised("missing image_hash", <<>>)
       ELSE FbCreativeThenAd(link_url, cleaned, status, r1, r2)

\* A mixed builder that asks no thumbnail of a video card.
FbMixedCardError_no_thumbnail_check(item) ==
    IF ~Truthy(item.image_hash) /\ ~Truthy(item.video_id)
    THEN "missing both image_hash and video_id"
    ELSE ""

\* The two checks of one card of the mixed builder.
FbMixedCardError(item) ==
    IF Truthy(item.video_id) /\ ~Truthy(item.image_hash)
    THEN "missing thumbnail"
    ELSE IF ~Truthy(item.image_hash) /\ ~Truthy(item.video_id)
    THEN "missing both image_hash and video_id"
    ELSE ""

create_paid_fb_mixed_carousel_ad(child_attachments, link_url, status, r1, r2) ==
    LET cleaned == [i \in DOMAIN child_attachments |->
                       FbItem(child_attachments[i], link_url)]
        bad == {i \in DOMAIN cleaned : FbMixedCardError(cleaned[i]) # ""}
    IN IF bad # {}
       THEN BuildRaised(FbMixedCardError(cleaned[First(bad)]), <<>>)
       ELSE FbCreativeThenAd(link_url, cleaned, status, r1, r2)

\* create_ig_carousel_ad_creative and the ad request of
\* create_paid_ig_homogeneous_carousel_ad.
create_paid_ig_homogeneous_carousel_ad(image_hashes, link_url, adset_link, status, r1, r2) ==
    LET final_link == Or(Or(link_url, adset_link), DEFAULT_LINK)
        cards == [i \in DOMAIN image_hashes |->
                     SentCard(final_link, image_hashes[i], None)]
    IN IF Len(image_hashes) < 2
       THEN BuildRaised("Carousel requires at least 2 image hashes", <<>>)
       ELSE IgCreativeThenAd(final_link, cards, status, r1, r2)

\* The type a card is taken for: its own (stripped; the types passed here are
\* lower case already), or by whether it has a video_id.
IgCardType(att) ==
    IF Strip(Or(att.type, "")) \in {"image", "video"}
    THEN Strip(Or(att.type, ""))
    ELSE IF Strip(Or(att.video_id, "")) # "" THEN "video" ELSE "image"

IgMixedCardError(att) ==
    IF IgCardType(att) = "image"
    THEN IF Strip(Or(att.image_hash, "")) = ""
         THEN "image card missing image_hash" ELSE ""
    ELSE IF Strip(Or(att.video_id, "")) = "" THEN "video card missing video_id"
    ELSE IF Strip(Or(att.image_hash, "")) = "" THEN "missing thumbnail"
    ELSE ""

IgMixedCard(att, final_link) ==
    SentCard(Or(Strip(Or(att.link, "")), final_link),
             Strip(Or(att.image_hash, "")),
             IF IgCardType(att) = "image" THEN None ELSE Strip(Or(att.video_id, "")))

create_paid_ig_mixed_carousel_ad_json(child_attachments, link_url, adset_link, status, r1, r2) ==
    LET final_link == Strip(Or(Or(link_url, adset_link), DEFAULT_LINK))
        bad == {i \in DOMAIN child_attachments :
                   IgMixedCardError(child_attachments[i]) # ""}
        cards == [i \in DOMAIN child_attachments |->
                     IgMixedCard(child_attachments[i], final_link)]
    IN IF Len(child_attachments) < 2
       THEN BuildRaised("Mixed carousel requires at least 2 cards", <<>>)
       ELSE IF bad # {}
       THEN BuildRaised(IgMixedCardError(child_attachments[First(bad)]), <<>>)
       ELSE IgCreativeThenAd(final_link, cards, status, r1, r2)

\* A cover taken from the last card.
CoverHash_last(normalized) == normalized[Len(normalized)].image_hash

\* cover_hash: set at the first card, when it is still None.
CoverHash(normalized) == normalized[1].image_hash

normalize_carousel_attachments(child_attachments, link_url) ==
    LET normalized == [i \in DOMAIN child_attachments |->
                          SentCard(Or(Strip(Or(child_attachments[i].link, "")), link_url),
                                   Strip(Or(child_attachments[i].image_hash, "")),
                                   IF Strip(Or(child_attachments[i].video_id, "")) # ""
                                   THEN Strip(Or(child_attachments[i].video_id, ""))
                                   ELSE None)]
    IN IF Len(child_attachments) < MIN_CAROUSEL_CARDS
       THEN BuildRaised("Carousel requires at least 2 child attachments", <<>>)
       ELSE IF Len(child_attachments) > MAX_CAROUSEL_CARDS
       THEN BuildRaised("Carousel supports at most 10 child attachments", <<>>)
       ELSE IF \E i \in DOMAIN normalized : normalized[i].image_hash = ""
       THEN BuildRaised("missing image_hash", <<>>)
       ELSE [BuildReturned(<<>>) EXCEPT !.cover_hash = CoverHash(normalized),
                                        !.normalized = normalized]

create_paid_ig_image_ad(image_hash, link_url, status, r1, r2) ==
    IF ~Truthy(image_hash)
    THEN BuildRaised("Missing image_hash (upload_ad_image first)", <<>>)
    ELSE IgCreativeThenAd(link_url, <<>>, status, r1, r2)

\* The call ends with outcome o.
Built(o) ==
    /\ build' = [build EXCEPT !.pc = "done", !.raised = o.raised, !.error = o.error,
                              !.requests = o.requests, !.cover_hash = o.cover_hash,
                              !.normalized = o.normalized]
    /\ UNCHANGED <<varsVault, varsPipe, varsPoll, varsSubmit, varsShared>>

Calling(builder) == build.pc = "called" /\ build.builder = builder

call_create_paid_fb_homogeneous_carousel_ad ==
    /\ Calling("create_paid_fb_homogeneous_carousel_ad")
    /\ \E r1 \in Responses, r2 \in Responses :
          Built(create_paid_fb_homogeneous_carousel_ad(
                   build.child_attachments, build.link_url, build.status, r1, r2))

call_create_paid_fb_mixed_carousel_ad ==
    /\ Calling("create_paid_fb_mixed_carousel_ad")
    /\ \E r1 \in Responses, r2 \in Responses :
          Built(create_paid_fb_mixed_carousel_ad(
                   build.child_attachments, build.link_url, build.status, r1, r2))

call_create_paid_ig_homogeneous_carousel_ad ==
    /\ Calling("create_paid_ig_homogeneous_carousel_ad")
    /\ \E r1 \in Responses, r2 \in Responses :
          Built(create_paid_ig_homogeneous_carousel_ad(
                   [i \in DOMAIN build.child_attachments |->
                       build.child_attachments[i].image_hash],
                   build.link_url, build.adset_link, build.status, r1, r2))

call_create_paid_ig_mixed_carousel_ad_json ==
    /\ Calling("create_paid_ig_mixed_carousel_ad_json")
    /\ \E r1 \in Responses, r2 \in Responses :
          Built(create_paid_ig_mixed_carousel_ad_json(
                   build.child_attachments, build.link_url, build.adset_link,
                   build.status, r1, r2))

call_normalize_carousel_attachments ==
    /\ Calling("_normalize_carousel_attachments")
    /\ Built(normalize_carousel_attachments(build.child_attachments, build.link_url))

call_create_paid_ig_image_ad ==
    /\ Calling("create_paid_ig_image_ad")
    /\ \E r1 \in Responses, r2 \in Responses :
          Built(create_paid_ig_image_ad(build.image_hash, build.link_url,
                                        build.status, r1, r2))

InitBuild ==
    /\ build \in Builds(MaxCards)
    /\ WellTyped(build)
    /\ VaultAtRest
    /\ PipeAtRest
    /\ PollAtRest
    /\ SubmitAtRest
    /\ SharedAtRest

NextBuild ==
    \/ call_create_paid_fb_homogeneous_carousel_ad
    \/ call_create_paid_fb_mixed_carousel_ad
    \/ call_create_paid_ig_homogeneous_carousel_ad
    \/ call_create_paid_ig_mixed_carousel_ad_json
    \/ call_normalize_carousel_attachments
    \/ call_create_paid_ig_image_ad

SpecBuild == InitBuild /\ [][NextBuild]_vars

(***************************************************************************)
(* Claims about the creative builders                                      *)
(***************************************************************************)
Done(builders) == build.pc = "done" /\ build.builder \in builders

\* The builders that send a carousel creative, and the mixed ones among them.
CarouselAdBuilders == CarouselBuilders \ {"_normalize_carousel_attachments"}
MixedBuilders ==
    {"create_paid_fb_mixed_carousel_ad", "create_paid_ig_mixed_carousel_ad_json"}

\* The carousel creative requests that were sent.
CarouselCreatives ==
    {k \in DOMAIN build.requests :
        build.requests[k].stage = "creative" /\ build.builder \in CarouselAdBuilders}

\* C15: a validation failure of an ad-creating operation (shape, cardinality,
\* missing field, status other than ACTIVE/PAUSED) is raised before the
\* operation has sent any request.
C15_ValidationBeforeRequests ==
    (Done(Builders) /\ build.raised /\ build.error # "RemoteError")
       => build.requests = <<>>

\* A card with a video id and no image hash, and the first such card.
VideoWithoutHash(att) == Truthy(att.video_id) /\ ~Truthy(att.image_hash)

FirstVideoWithoutHash ==
    First({i \in DOMAIN build.child_attachments :
              VideoWithoutHash(build.child_attachments[i])})

\* A card that is complete: it has an image hash, and a video id if it is
\* declared a video.
Complete(att) ==
    /\ Strip(Or(att.image_hash, "")) # ""
    /\ att.type = "video" => Truthy(att.video_id)

\* C16: a mixed carousel in which some card, at any position, has a video id
\* but no image hash is refused before any request is sent; when the cards
\* before it are complete (and the list has two cards, the card is not
\* declared an image) the error is the missing-thumbnail one.
C16_MissingThumbnailBeforeRequests ==
    (/\ Done(MixedBuilders)
     /\ \E i \in DOMAIN build.child_attachments :
           VideoWithoutHash(build.child_attachments[i])) =>
       /\ build.raised
       /\ build.requests = <<>>
       /\ (/\ Len(build.child_attachments) >= MIN_CAROUSEL_CARDS
           /\ build.child_attachments[FirstVideoWithoutHash].type # "image"
           /\ \A j \in 1..(FirstVideoWithoutHash - 1) :
                 Complete(build.child_attachments[j]))
             => build.error = "missing thumbnail"

\* C16 witness: a valid image card, then a video card without a thumbnail
\* hash: the mixed builder raised the missing-thumbnail error and sent
\* nothing.
C16_Witness ==
    /\ Done(MixedBuilders)
    /\ Len(build.child_attachments) = 2
    /\ build.child_attachments[1] = Attachment("image", "h1", None, None)
    /\ build.child_attachments[2] = Attachment("video", None, "v1", None)
    /\ build.raised
    /\ build.error = "missing thumbnail"
    /\ build.requests = <<>>

\* C17: a carousel of fewer than 2 or more than 10 cards is refused by every
\* builder with no request sent; a carousel of 2 to 10 complete cards is
\* accepted and its creative is submitted.
C17_CardCountChecked ==
    Done(CarouselAdBuilders) =>
       /\ Len(build.child_attachments) \notin MIN_CAROUSEL_CARDS..MAX_CAROUSEL_CARDS
             => (build.raised /\ build.requests = <<>>)
       /\ (/\ Len(build.child_attachments) \in MIN_CAROUSEL_CARDS..MAX_CAROUSEL_CARDS
           /\ \A i \in DOMAIN build.child_attachments :
                 Complete(build.child_attachments[i]))
             => CarouselCreatives # {}

\* C18: every card of every carousel creative request that was sent has a
\* non-empty image hash, a card with a video id included.
C18_EveryCardHasImageHash ==
    \A k \in CarouselCreatives :
       \A i \in DOMAIN build.requests[k].child_attachments :
          Truthy(build.requests[k].child_attachments[i].image_hash)

\* C19: the cover hash of a homogeneous carousel is the image hash of its
\* first card, whatever the later cards are: "h1" for h1, h2, h3.
C19_CoverIsFirstHash ==
    (Done({"_normalize_carousel_attachments"}) /\ ~build.raised) =>
       /\ build.cover_hash = Strip(build.child_attachments[1].image_hash)
       /\ build.cover_hash = build.normalized[1].image_hash

\* C19 witness: the cards h1, h2, h3 were normalized and the cover is h1.
C19_Witness ==
    /\ Done({"_normalize_carousel_attachments"})
    /\ ~build.raised
    /\ [i \in DOMAIN build.child_attachments |-> build.child_attachments[i].image_hash]
          = <<"h1", "h2", "h3">>
    /\ build.cover_hash = "h1"

\* A value that counts as no link: left out, empty or whitespace only.
Blank(s) == s \in {None, "", " "}

\* The first value of the cascade that is not blank.
Cascade(card_link, link_url, adset_link) ==
    IF ~Blank(card_link) THEN card_link
    ELSE IF ~Blank(link_url) THEN link_url
    ELSE IF ~Blank(adset_link) THEN adset_link
    ELSE DEFAULT_LINK

\* The link the caller gave for card i (a list of hashes gives none).
CardLink(i) ==
    IF build.builder \in HashListBuilders THEN None
    ELSE build.child_attachments[i].link

\* C20: the link of each card in the request is the first non-blank value of:
\* the card's link, the caller's default link, the link stored on the ad set,
\* the platform default.
C20_LinkCascade ==
    \A k \in CarouselCreatives :
       \A i \in DOMAIN build.requests[k].child_attachments :
          build.requests[k].child_attachments[i].link
             = Cascade(CardLink(i), build.link_url, build.adset_link)

(***************************************************************************)
(* Claims about the carousel of a pipeline run                             *)
(***************************************************************************)
\* The creative requests of a carousel run of main().
CarouselRequests ==
    {k \in 1..Len(graph) :
        /\ graph[k].stage = "creative"
        /\ run.driver = "main"
        /\ run.mode \in {"carousel_images", "carousel_mixed"}}

\* The upload request that created asset id was sent for the i-th input.
UploadedFor(id, i) ==
    /\ id \in 1..Len(graph)
    /\ graph[id].stage = "upload"
    /\ graph[id].ok
    /\ graph[id].path = i

C22_AdSetWritesStayLocal ==
    /\ [](\A k \in 1..Len(graph) :
             /\ graph[k].stage = "adset" => graph[k].daily_budget = DAILY_BUDGET
             /\ graph[k].stage \in {"accounts", "campaign"} =>
                   graph[k].daily_budget = 0)
    /\ [][/\ Main("step3_edit") => graph' = graph
          /\ Len(graph') >= Len(graph)
          /\ SubSeq(graph', 1, Len(graph)) = graph]_vars

\* C22 witness: a run wrote another budget on the ad-set object, went on to
\* create the ad, and the ad-set request still holds the budget it was sent
\* with.
C22_Witness ==
    /\ Main("done")
    /\ last.status = "ok"
    /\ run.adset.daily_budget # DAILY_BUDGET
    /\ \E k \in 1..Len(graph) :
          /\ graph[k].stage = "adset"
          /\ graph[k].ok
          /\ graph[k].daily_budget = DAILY_BUDGET

\* A run of main() for a carousel of three images has ended, every request it
\* sent was accepted, one account was discovered and the three paths were
\* found on disk.
AcceptedCarouselRun ==
    /\ run.driver = "main"
    /\ run.pc \in {"done", "returned"}
    /\ run.mode = "carousel_images"
    /\ Len(run.cards) = 3
    /\ Len(graph) >= 4
    /\ graph[1].n = 1
    /\ \A k \in 1..Len(graph) : graph[k].ok

\* C23: with every request accepted, a run that discovers one account,
\* creates the campaign and the ad set, uploads three images and creates the
\* homogeneous carousel ad ends with the ad created and its id returned, with
\* AdsStairway as with FbAdsStairway.
C23_AcceptedRunCreatesAd ==
    AcceptedCarouselRun =>
       /\ run.pc = "done"
       /\ last.status = "ok"
       /\ last.value # 0
       /\ graph[Len(graph)].stage = "ad"
       /\ last.value = Len(graph)

(***************************************************************************)
(* Claims about the reference tables of a run                              *)
(***************************************************************************)
\* The references a stairway has recorded: FbAdsStairway._campaign_by_index
\* and _adset_by_index, AdsStairway.created_campaigns and, of adsets, the
\* remote ids of each ad set.
References(a) ==
    [campaign_by_index |-> a.campaign_by_index,
     adset_by_index |-> a.adset_by_index,
     created_campaigns |-> a.created_campaigns,
     adsets |-> [i \in DOMAIN a.adsets |->
                   [ad_account_id |-> a.adsets[i].ad_account_id,
                    campaign_id |-> a.adsets[i].campaign_id,
                    adset_id |-> a.adsets[i].adset_id]]]

\* C24: a call that raises leaves every recorded reference as it was, and a
\* run of main() ends at its first error: what the caller of the stairway
\* holds then is that error and the object with the references of the stages
\* that succeeded.
C24_AbortKeepsReferences ==
    /\ [][last'.status = "raised" => References(ads') = References(ads)]_vars
    /\ [][(run.driver = "main" /\ last.status = "raised") =>
             (ads' = ads /\ last' = last)]_vars

\* C24 witness: a run of main() has returned at a failed request after its
\* campaign and its ad set were recorded.
C24_Witness ==
    /\ run.driver = "main"
    /\ run.pc = "returned"
    /\ last.status = "raised"
    /\ ~graph[Len(graph)].ok
    /\ \/ /\ ads.campaign_by_index[INDEX] # NoCampaignRef
          /\ ads.adset_by_index[INDEX] # NoAdSetRef
       \/ /\ Len(ads.created_campaigns) = 1
          /\ Len(ads.adsets) = 1

(***************************************************************************)
(* A caller that addresses the stairway by any ordinal                     *)
(***************************************************************************)
MaxAddr == 4

InitAddr ==
    /\ \E kind \in Kinds : ads = NewStairway(kind)
    /\ run = [driver |-> "api", indexes |-> Ordinals, limit |-> MaxAddr]
    /\ graph = <<>>
    /\ last = NoCall
    /\ VaultAtRest
    /\ CallsAtRest

NextAddr ==
    \/ api_get_ad_accounts
    \/ api_create_campaign_by_index
    \/ api_create_adset
    \/ api_upload_ad_image
    \/ api_upload_ad_video
    \/ api_create_paid_image_ad
    \/ api_create_paid_video_ad

SpecAddr == InitAddr /\ [][NextAddr]_vars

\* No campaign, no ad set, has been recorded under the ordinal: the dict of
\* FbAdsStairway has no entry for it, the list of AdsStairway has no item
\* numbered index counting from 0.
NoCampaignAt(a, index) ==
    IF a.kind = "FbAdsStairway" THEN a.campaign_by_index[index] = NoCampaignRef
    ELSE index \notin 0..(Len(a.created_campaigns) - 1)

NoAdSetAt(a, index) ==
    IF a.kind = "FbAdsStairway" THEN a.adset_by_index[index] = NoAdSetRef
    ELSE index \notin 0..(Len(a.adsets) - 1)

\* The call raised at once: no request was sent and no reference changed.
FailsAtOnce(o) ==
    /\ o.raised
    /\ o.graph = graph
    /\ References(o.ads) = References(ads)

\* C25: a call that addresses an ordinal with no recorded reference (an
\* ad-set creation without a campaign there; an upload or an ad creation
\* without an ad set there; an index out of range or negative) raises at
\* once, sends no request and changes no recorded reference.
C25_UnknownOrdinalFailsAtOnce ==
    \A index \in Ordinals, r1 \in Responses, r2 \in Responses :
       /\ NoCampaignAt(ads, index) =>
             FailsAtOnce(create_adset(ads, graph, index, r1))
       /\ NoAdSetAt(ads, index) =>
             /\ FailsAtOnce(upload_ad_image(ads, graph, index, 1, r1))
             /\ FailsAtOnce(upload_ad_video(ads, graph, index, 1, r1))
             /\ FailsAtOnce(create_paid_image_ad(ads, graph, index, 0, r1, r2))
             /\ FailsAtOnce(create_paid_video_ad(ads, graph, index, 0, FALSE,
                                                 r1, r2))

(***************************************************************************)
(* Runs that share a process: the module-level lists of the routers        *)
(***************************************************************************)
\* The runs in one process; each brings its own campaign name and its own
\* post, so an entry is named after the run whose input it holds.
RunIds == {"A", "B"}

\* No list grows past this.
MaxShared == 2

\* campaigns, created_campaigns and adsets of ig_campaign.py and organic_posts
\* of organic_poster.py after import; pc and idx are the locals of each run
\* of main_organic_pipeline.main().
NewShared ==
    [pc |-> [r \in RunIds |-> "start"],
     idx |-> [r \in RunIds |-> 0],
     campaigns |-> <<>>,
     created_campaigns |-> <<>>,
     adsets |-> <<>>,
     organic_posts |-> <<>>]

SharedStep == UNCHANGED <<varsVault, varsPipe, varsPoll, varsSubmit, varsBuild>>

\* GET /ig/ad-accounts?campaign_name=...: one Campaign per account is
\* appended to the module's list.
ig_campaign_get_ad_accounts(r) ==
    /\ shared.pc[r] = "start"
    /\ Len(shared.campaigns) < MaxShared
    /\ \E resp \in Responses :
          shared' = IF resp = "error" THEN shared
                    ELSE [shared EXCEPT !.campaigns = Append(@, [name |-> r])]
    /\ SharedStep

\* POST /ig/campaigns?index=...
ig_campaign_create_campaign_by_index(r) ==
    /\ shared.pc[r] = "start"
    /\ Len(shared.created_campaigns) < MaxShared
    /\ \E index \in Indexes, resp \in Responses :
          shared' =
             IF shared.campaigns = <<>> \/ index >= Len(shared.campaigns)
                \/ resp = "error"
             THEN shared
             ELSE [shared EXCEPT !.created_campaigns =
                      Append(@, [name |-> shared.campaigns[index + 1].name,
                                 by |-> r])]
    /\ SharedStep

\* POST /ig/adsets?index=...
ig_campaign_create_adset(r) ==
    /\ shared.pc[r] = "start"
    /\ Len(shared.adsets) < MaxShared
    /\ \E index \in Indexes, resp \in Responses :
          shared' =
             IF IndexError(shared.created_campaigns, index) \/ resp = "error"
             THEN shared
             ELSE [shared EXCEPT !.adsets =
                      Append(@, [name |-> shared.created_campaigns[index + 1].name,
                                 by |-> r])]
    /\ SharedStep

\* main(): organic_posts.append(organic_post)
main_organic_append(r) ==
    /\ shared.pc[r] = "start"
    /\ shared' = [shared EXCEPT !.pc[r] = "appended",
                                !.organic_posts =
                                    Append(@, [title |-> r, creation_id |-> 0,
                                               uploaded_by |-> "none"])]
    /\ SharedStep

\* main(): idx = len(organic_posts) - 1
main_organic_index(r) ==
    /\ shared.pc[r] = "appended"
    /\ shared' = [shared EXCEPT !.pc[r] = "indexed",
                                !.idx[r] = Len(shared.organic_posts) - 1]
    /\ SharedStep

\* main(): upload_video_instagram(..., idx, ...), which takes
\* organic_posts[idx], sends its url and caption and stores the creation id
\* on it.
main_organic_upload(r) ==
    /\ shared.pc[r] = "indexed"
    /\ \E resp \in Responses :
          LET i == shared.idx[r] + 1
          IN shared' =
                IF shared.idx[r] >= Len(shared.organic_posts) \/ resp = "error"
                THEN [shared EXCEPT !.pc[r] = "raised"]
                ELSE [shared EXCEPT !.pc[r] = "uploaded",
                                    !.organic_posts[i].creation_id = 1,
                                    !.organic_posts[i].uploaded_by = r]
    /\ SharedStep

InitShared ==
    /\ shared = NewShared
    /\ VaultAtRest
    /\ PipeAtRest
    /\ PollAtRest
    /\ SubmitAtRest
    /\ BuildAtRest

NextShared ==
    \E r \in RunIds :
       \/ ig_campaign_get_ad_accounts(r)
       \/ ig_campaign_create_campaign_by_index(r)
       \/ ig_campaign_create_adset(r)
       \/ main_organic_append(r)
       \/ main_organic_index(r)
       \/ main_organic_upload(r)

SpecShared == InitShared /\ [][NextShared]_vars

\* C26: no operation of a run reads or changes an entry of another run: a
\* campaign is created from the Campaign the same run generated, an ad set
\* from a campaign the same run created, and the index a run computed for its
\* post addresses its own post, the only one it uploads.
C26_RunsAreIsolated ==
    /\ \A i \in 1..Len(shared.created_campaigns) :
          shared.created_campaigns[i].name = shared.created_campaigns[i].by
    /\ \A i \in 1..Len(shared.adsets) :
          shared.adsets[i].name = shared.adsets[i].by
    /\ \A r \in RunIds :
          shared.pc[r] \in {"indexed", "uploaded"} =>
             shared.organic_posts[shared.idx[r] + 1].title = r
    /\ \A i \in 1..Len(shared.organic_posts) :
          shared.organic_posts[i].uploaded_by
             \in {"none", shared.organic_posts[i].title}

(***************************************************************************)
(* Claims about the organic flow                                           *)
(***************************************************************************)
\* The media_publish requests of the call, and the wait that went before the
\* publish.
PublishRequests == {k \in 1..Len(sub.requests) : sub.requests[k].kind = "publish"}

PublishWaits ==
    {k \in 1..Len(sub.requests) :
        sub.requests[k].kind = "status" /\ sub.requests[k].idx = 0}

\* C27: in the organic flow a media_publish request is sent only for a
\* container whose creation id was recorded, right after the wait on it
\* observed FINISHED; a wait that ends in ERROR, in an error envelope or in
\* the timeout is followed by no publish request, and no published post id
\* is recorded then.
C27_PublishOnlyAfterFinished ==
    sub.pc # "none" /\ sub.fn \in OrganicUploads =>
       /\ \A k \in PublishRequests :
             /\ sub.creation_id \in 1..(k - 2)
             /\ sub.requests[sub.creation_id].kind \in {"container", "parent"}
             /\ sub.requests[sub.creation_id].resp = "id"
             /\ k - 1 \in PublishWaits
             /\ sub.requests[k - 1].resp = "return"
       /\ \A k \in PublishWaits :
             sub.requests[k].resp # "return" =>
                /\ PublishRequests = {}
                /\ sub.instagram_post_id = 0
                /\ sub.published = "raised"
       /\ sub.instagram_post_id # 0 =>
             /\ sub.instagram_post_id \in PublishRequests
             /\ sub.requests[sub.instagram_post_id].resp = "id"

\* C27 witness: the container was created, the wait saw IN_PROGRESS twice and
\* then FINISHED, and the publish request that followed returned the post id.
C27_Witness ==
    /\ sub.pc # "none"
    /\ sub.fn \in OrganicUploads
    /\ sub.published = "returned"
    /\ sub.instagram_post_id = Len(sub.requests)
    /\ sub.requests[Len(sub.requests) - 1].polls = 3

(***************************************************************************)
(* normalize_act                                                           *)
(***************************************************************************)
\* An account id is a string, kept as the sequence of its pieces: the prefix
\* "act_", the letters "act" without the underscore, a digit and a blank.  No
\* two pieces put together make another piece, so a string has one sequence.
ActPieces == {"act_", "act", "1", " "}

MaxPieces == 4

AccountIds(max_pieces) == UNION {[1..n -> ActPieces] : n \in 0..max_pieces}

\* s.startswith(prefix)
StartsWith(s, prefix) ==
    Len(s) >= Len(prefix) /\ SubSeq(s, 1, Len(prefix)) = prefix

\* s.strip()
RECURSIVE StripAct(_)
StripAct(s) ==
    IF s = <<>> THEN s
    ELSE IF Head(s) = " " THEN StripAct(Tail(s))
    ELSE IF s[Len(s)] = " " THEN StripAct(SubSeq(s, 1, Len(s) - 1))
    ELSE s

\* if s.startswith("act_act_"): s = s.replace("act_act_", "act_", 1), once.
DeDup_once(s) == IF StartsWith(s, <<"act_", "act_">>) THEN Tail(s) ELSE s

\* while s.startswith("act_act_"): s = s.replace("act_act_", "act_", 1)
RECURSIVE DeDup(_)
DeDup(s) == IF StartsWith(s, <<"act_", "act_">>) THEN DeDup(Tail(s)) ELSE s

normalize_act(ad_account_id) ==
    LET s == StripAct(ad_account_id)
        d == DeDup(s)
    IN IF s = <<>> THEN [raised |-> TRUE, value |-> <<>>]
       ELSE IF ~StartsWith(d, <<"act_">>)
       THEN [raised |-> FALSE, value |-> <<"act_">> \o d]
       ELSE [raised |-> FALSE, value |-> d]

\* normalize_act(ad_account_id), and normalize_act of what it returned (the
\* stairway normalizes the stored id again in every later method).
NewAct(ad_account_id) ==
    [pc |-> "called", builder |-> "normalize_act", ad_account_id |-> ad_account_id,
     raised |-> FALSE, value |-> <<>>, again |-> <<>>]

call_normalize_act ==
    /\ Calling("normalize_act")
    /\ LET o == normalize_act(build.ad_account_id)
       IN build' = [build EXCEPT !.pc = IF o.raised THEN "raised" ELSE "returned",
                                 !.raised = o.raised, !.value = o.value]
    /\ UNCHANGED <<varsVault, varsPipe, varsPoll, varsSubmit, varsShared>>

call_normalize_act_again ==
    /\ build.pc = "returned"
    /\ build.builder = "normalize_act"
    /\ LET o == normalize_act(build.value)
       IN build' = [build EXCEPT !.pc = IF o.raised THEN "raised" ELSE "again",
                                 !.raised = o.raised, !.again = o.value]
    /\ UNCHANGED <<varsVault, varsPipe, varsPoll, varsSubmit, varsShared>>

InitAct ==
    /\ build \in {NewAct(id) : id \in AccountIds(MaxPieces)}
    /\ VaultAtRest
    /\ PipeAtRest
    /\ PollAtRest
    /\ SubmitAtRest
    /\ SharedAtRest

NextAct == call_normalize_act \/ call_normalize_act_again

SpecAct == InitAct /\ [][NextAct]_vars

\* s without any leading "act_", and the id without its blanks at both ends
\* and then without any leading "act_".
RECURSIVE Unprefixed(_)
Unprefixed(s) == IF StartsWith(s, <<"act_">>) THEN Unprefixed(Tail(s)) ELSE s

BareId(ad_account_id) == Unprefixed(StripAct(ad_account_id))

\* C28: normalize_act raises for an empty or blank id and for no other; what
\* it returns is "act_" once, followed by the id without its leading prefixes
\* (added when there was none, kept when there was one, collapsed when there
\* were several), and normalizing that again returns the same.
C28_NormalizeAct ==
    build.pc \in {"raised", "returned", "again"} =>
       /\ build.raised = (\A i \in DOMAIN build.ad_account_id :
                             build.ad_account_id[i] = " ")
       /\ ~build.raised =>
             /\ build.value = <<"act_">> \o BareId(build.ad_account_id)
             /\ StartsWith(build.value, <<"act_">>)
             /\ ~StartsWith(build.value, <<"act_", "act_">>)
       /\ build.pc = "again" => build.again = build.value

\* C28 witness: an id with the prefix three times was
\* normalized to one prefix, and normalized again.
C28_Witness ==
    /\ build.pc = "again"
    /\ build.ad_account_id = <<"act_", "act_", "act_", "1">>
    /\ build.value = <<"act_", "1">>
    /\ build.again = <<"act_", "1">>

\* The references of a and those of b, which comes later: every reference of
\* a is in b under the same ordinal with the same remote ids.
KeptIn(a, b) ==
    /\ \A i \in Ordinals :
          /\ a.campaign_by_index[i] # NoCampaignRef =>
                b.campaign_by_index[i] = a.campaign_by_index[i]
          /\ a.adset_by_index[i] # NoAdSetRef =>
                b.adset_by_index[i] = a.adset_by_index[i]
    /\ \A i \in 1..Len(a.created_campaigns) :
          /\ i <= Len(b.created_campaigns)
          /\ b.created_campaigns[i] = a.created_campaigns[i]
    /\ \A i \in 1..Len(a.adsets) :
          /\ i <= Len(b.adsets)
          /\ b.adsets[i] = a.adsets[i]

\* C29: once a campaign or ad-set reference is recorded under an ordinal, no
\* later operation replaces it or changes the remote ids stored there.
C29_ReferencesAppendOnly ==
    [][KeptIn(References(ads), References(ads'))]_vars

\* C30: when create_campaign_by_index(i) has succeeded, a create_adset(i) that
\* follows it creates the ad set under the campaign just created and under
\* that campaign's account, whatever i is and whatever was created before.
C30_AdSetUnderCampaignOfIndex ==
    \A index \in Indexes :
       LET c == create_campaign_by_index(ads, graph, index, "id")
           s == create_adset(c.ads, c.graph, index, "id")
       IN (ads.kind \in Kinds /\ ~c.raised) =>
             /\ ~s.raised
             /\ s.graph[Len(s.graph)].stage = "adset"
             /\ s.graph[Len(s.graph)].campaign_id = c.value
             /\ s.graph[Len(s.graph)].ad_account_id
                   = c.graph[Len(c.graph)].ad_account_id

(***************************************************************************)
(* The credential a stage's requests carry                                 *)
(***************************************************************************)
MaxStage == 4

\* The stages of a run in the order main() calls them, with the video upload.
StageOrder == <<"accounts", "campaign", "adset", "upload_video", "creative", "ad">>

\* AdsStairway.__init__ reads the user token and the page token once and keeps
\* them in self.user_access_token and self.page_access_token; a DbReadError of
\* either read ends the construction.  FbAdsStairway.__init__ only builds the
\* reader.
Stairway_init(kind, table) ==
    IF kind = "FbAdsStairway"
    THEN [raised |-> FALSE,
          ads |-> [kind |-> kind, user_access_token |-> NoToken,
                   page_access_token |-> NoToken]]
    ELSE IF \/ get_active_user_token(table, RunClient, RunUser).status # "ok"
            \/ get_active_page_token(table, RunClient, RunPage).status # "ok"
         THEN [raised |-> TRUE, ads |-> NoAds]
         ELSE [raised |-> FALSE,
               ads |-> [kind |-> kind,
                        user_access_token |->
                            get_active_user_token(table, RunClient, RunUser).token,
                        page_access_token |->
                            get_active_page_token(table, RunClient, RunPage).token]]

\* "access_token": self.user_access_token in every payload of AdsStairway but
\* upload_ad_video's, which carries self.page_access_token; every _req of
\* FbAdsStairway is called with token_kind="user".
token_kind(kind, stage) ==
    IF kind = "AdsStairway" /\ stage = "upload_video" THEN "page" ELSE "user"

\* The access_token of a stage's request: FbAdsStairway._req calls
\* _user_access_token(), which reads the vault; AdsStairway sends the field
\* that __init__ filled.
access_token(a, table, stage) ==
    IF a.kind = "FbAdsStairway"
    THEN get_active_user_token(table, RunClient, RunUser)
    ELSE [status |-> "ok",
          token |-> IF token_kind(a.kind, stage) = "page"
                    THEN a.page_access_token ELSE a.user_access_token,
          row |-> 0]

\* The construction of the stairway at the start of main().
stairway_construct(kind) ==
    /\ run.driver = "stages"
    /\ run.pc = 0
    /\ LET o == Stairway_init(kind, meta_token)
       IN /\ ads' = o.ads
          /\ run' = [run EXCEPT !.pc = IF o.raised THEN -1 ELSE 1]
          /\ last' = [status |-> IF o.raised THEN "raised" ELSE "returned",
                      value |-> 0]
    /\ UNCHANGED <<graph, varsVault, varsCalls>>

\* One stage of the run: its request carries the access token; a DbReadError
\* of the read in _req ends the run before the request.
stairway_stage ==
    /\ run.driver = "stages"
    /\ run.pc \in 1..MaxStage
    /\ LET stage == StageOrder[run.pc]
           tok == access_token(ads, meta_token, stage)
       IN IF tok.status # "ok"
          THEN /\ run' = [run EXCEPT !.pc = -1]
               /\ last' = [status |-> "raised", value |-> 0]
               /\ UNCHANGED graph
          ELSE /\ graph' = Append(graph,
                       [stage |-> stage,
                        token_kind |-> token_kind(ads.kind, stage),
                        access_token |-> tok.token])
               /\ run' = [run EXCEPT !.pc = run.pc + 1]
               /\ last' = [status |-> "returned", value |-> Len(graph) + 1]
    /\ UNCHANGED <<ads, varsVault, varsCalls>>

InitStage ==
    /\ ads = NoAds
    /\ run = [driver |-> "stages", pc |-> 0]
    /\ graph = <<>>
    /\ last = NoCall
    /\ VaultAtRest
    /\ CallsAtRest

\* The run of one tenant, and the authorisations that store or rotate the
\* tenant's user and page secrets while it runs.
NextStage ==
    \/ \E key \in {Key(RunClient, "user", RunUser), Key(RunClient, "page", RunPage)} :
          store_token_update("w1", key, Secret(nTx + 1))
    \/ store_token_insert("w1")
    \/ store_token_commit("w1")
    \/ \E kind \in Kinds : stairway_construct(kind)
    \/ stairway_stage

SpecStage == InitStage /\ [][NextStage]_vars

\* The active secret of the run's tenant for a kind of token.
ActiveSecret(kind) ==
    IF kind = "page"
    THEN get_active_page_token(meta_token, RunClient, RunPage).token
    ELSE get_active_user_token(meta_token, RunClient, RunUser).token

\* C31: every stage resolves its credential from the vault when it runs: each
\* request a stage sends carries the secret that is active in the vault when
\* the request is sent, so after a rotation committed between two stages the
\* later stage never sends the superseded secret.
C31_StageCarriesActiveSecret ==
    [][Len(graph') > Len(graph) =>
          graph'[Len(graph')].access_token =
              ActiveSecret(graph'[Len(graph')].token_kind)]_vars

(***************************************************************************)
(* The expiry of a stored secret                                           *)
(***************************************************************************)
\* timedelta(days=58); the clock nTx counts days here.
VALIDITY == 58

\* The days one step of waiting takes, and the day after which no one waits.
WAIT == 30
MaxDays == 90

\* token.expires_in (Optional[int]) in days: None, a day, ninety days.
ExpiresIn == {0, 1, 90}

\* A writer that stamps the ttl the caller passed.
expires_at_from_expires_in(now, expires_in) == now + expires_in

\* expires_at = now + timedelta(days=58)
expires_at(now, expires_in) == now + VALIDITY

\* The table a store_token leaves when it commits with no other writer at
\* work: the key's active rows revoked and the new active row added.
Stored(table, key, token, now, expires_in) ==
    Append(Revoke(table, ActiveIds(table, key)),
           [client_id |-> key.client_id,
            owner_type |-> key.owner_type,
            owner_id |-> key.owner_id,
            access_token_ciphertext |-> encrypt(token, now),
            token_fingerprint |-> fingerprint(token),
            expires_at |-> expires_at(now, expires_in),
            status |-> "active",
            created_at |-> now])

\* store_token on one connection with no other writer at work: the UPDATE
\* that revokes the key's active rows, the INSERT and the commit.  now() of a
\* later call is later.
store_token(key, token, expires_in) ==
    /\ Len(meta_token) < MaxTx
    /\ \A w \in Writers : tx[w] = IdleTx
    /\ meta_token' = Stored(meta_token, key, token, nTx + 1, expires_in)
    /\ nTx' = nTx + 1
    /\ UNCHANGED <<tx, rd, varsPipe, varsCalls>>

\* Days pass with no call at work.
days_pass ==
    /\ nTx + WAIT <= MaxDays
    /\ nTx' = nTx + WAIT
    /\ UNCHANGED <<meta_token, tx, rd, varsPipe, varsCalls>>

NextExpiry ==
    \/ \E key \in Keys, expires_in \in ExpiresIn :
          store_token(key, Secret(nTx + 1), expires_in)
    \/ days_pass
    \/ \E key \in Keys : get_active_token(key)
    \/ reader_return

SpecExpiry == InitVault /\ [][NextExpiry]_vars

\* The plaintext stored in a row.
PlaintextOf(i) == meta_token[i].token_fingerprint[2]

\* C32: expiry is recorded but never enforced: every row's expires_at is its
\* store time plus the one validity window, whatever expires_in the caller
\* passed; and get_active_token, run on any day, returns the secret of the
\* key's latest active row whenever the key has an active row, without regard
\* to the row's expires_at (and fails only when the key has no active row).
C32_ExpiryRecordedNotEnforced ==
    /\ [](\A i \in DOMAIN meta_token :
             meta_token[i].expires_at = meta_token[i].created_at + VALIDITY)
    /\ [][(rd.pc = "idle" /\ rd'.pc = "got") =>
             IF ActiveIds(meta_token, rd'.key) = {}
             THEN rd'.status = "DbReadError"
             ELSE /\ rd'.status = "ok"
                  /\ rd'.row \in ActiveIds(meta_token, rd'.key)
                  /\ \A j \in ActiveIds(meta_token, rd'.key) :
                        meta_token[j].created_at <= meta_token[rd'.row].created_at
                  /\ rd'.token = PlaintextOf(rd'.row)]_vars

\* A read that saw every row of the table returned a secret whose expires_at
\* lies before the store time of a later row: the secret had expired when it
\* was read.
C32_Witness ==
    /\ rd.pc = "got"
    /\ rd.status = "ok"
    /\ rd.ver = Len(meta_token)
    /\ rd.token = PlaintextOf(rd.row)
    /\ \E j \in DOMAIN meta_token :
          meta_token[j].created_at > meta_token[rd.row].expires_at

(***************************************************************************)
(* Claims about the two loops of the organic flow                          *)
(***************************************************************************)
StatusWaits == {k \in 1..Len(sub.requests) : sub.requests[k].kind = "status"}

Uploads == SelectSeq(graph, LAMBDA r : r.stage = "upload")

\* The assets an upload stage of main() has to send: one image, one video, or
\* the images of the carousel.
Assets ==
    IF run.mode = "carousel_images" THEN Len(run.cards) ELSE 1

ParentRequests == {k \in 1..Len(sub.requests) : sub.requests[k].kind = "parent"}

\* Before the k-th request the child of item i was created with id c and a
\* wait on it observed FINISHED.
ChildFinishedBefore(k, i, c) ==
    /\ c \in 1..(k - 1)
    /\ sub.requests[c].kind = "child"
    /\ sub.requests[c].idx = i
    /\ sub.requests[c].resp = "id"
    /\ \E s \in (c + 1)..(k - 1) :
          /\ sub.requests[s].kind = "status"
          /\ sub.requests[s].idx = i
          /\ sub.requests[s].resp = "return"

\* C35: in the organic carousel flow every parent container request lists one
\* child per carousel item, in the order of the items, and each listed child
\* was created and was observed FINISHED by a wait before the request; so when
\* a child is not created, or its wait ends in ERROR, an error envelope or the
\* timeout, no parent request is sent and no creation id is recorded.
C35_ParentAfterChildrenFinished ==
    (sub.pc # "none" /\ sub.fn = "upload_carousel_instagram") =>
       /\ \A k \in ParentRequests :
             /\ Len(sub.requests[k].children) = Len(sub.items)
             /\ \A i \in 1..Len(sub.items) :
                   ChildFinishedBefore(k, i, sub.requests[k].children[i])
       /\ \A k \in 1..Len(sub.requests) :
             (/\ sub.requests[k].kind \in {"child", "status"}
              /\ sub.requests[k].idx # 0
              /\ sub.requests[k].resp \in {"error", "HTTPException"}) =>
                (ParentRequests = {} /\ sub.creation_id = 0)
       /\ sub.creation_id # 0 =>
             (sub.creation_id \in ParentRequests
                /\ sub.requests[sub.creation_id].resp = "id")

\* C35 witness: a carousel of an image and a video: both children created,
\* both waits saw FINISHED, and the parent request, listing the two children
\* in the order of the items, was answered with the creation id.
C35_Witness ==
    /\ sub.pc # "none"
    /\ sub.fn = "upload_carousel_instagram"
    /\ sub.items = <<"image", "video">>
    /\ sub.creation_id = 5
    /\ sub.requests[5].children = <<1, 2>>
    /\ sub.requests[3].polls = 3
    /\ sub.published = "none"

(***************************************************************************)
(* Claims about the single-video flow                                      *)
(***************************************************************************)
\* A run of main() for a single video.
VideoRun == run.driver = "main" /\ run.mode = "video"

\* The requests of a stage of the run.
RequestsOf(stage) == {k \in 1..Len(graph) : graph[k].stage = stage}

C37_AdSetAgreesWithCampaign ==
    /\ ads.kind = "FbAdsStairway" =>
          \A i \in Ordinals :
             ads.adset_by_index[i] # NoAdSetRef =>
                /\ ads.adset_by_index[i].campaign_id =
                      ads.campaign_by_index[i].campaign_id
                /\ ads.adset_by_index[i].ad_account_id =
                      ads.campaign_by_index[i].ad_account_id
    /\ ads.kind = "AdsStairway" =>
          \A i \in 1..Len(ads.adsets) :
             /\ i <= Len(ads.created_campaigns)
             /\ ads.adsets[i].campaign_id = ads.created_campaigns[i].campaign_id
             /\ ads.adsets[i].ad_account_id = ads.created_campaigns[i].ad_account_id

(***************************************************************************)
(* Claims about the keys of the vault                                      *)
(***************************************************************************)
\* C38: store_token for one key (tenant, owner type, owner id) changes no row
\* of another key: a row changes only in the commit of a store_token for the
\* row's own key, and then only its status; and the row the commit adds is of
\* that key.  get_active_token for a key returns only a secret that was stored
\* under that very key.
C38_KeysAreIsolated ==
    /\ [][meta_token' # meta_token =>
             /\ \A i \in DOMAIN meta_token :
                   /\ i \in DOMAIN meta_token'
                   /\ meta_token'[i] # meta_token[i] =>
                         /\ \E w \in Writers :
                               CommitStep(w) /\ tx[w].key = KeyOf(meta_token[i])
                         /\ meta_token'[i] =
                               [meta_token[i] EXCEPT !.status = "revoked"]
             /\ \A i \in DOMAIN meta_token' \ DOMAIN meta_token :
                   \E w \in Writers :
                      /\ CommitStep(w)
                      /\ tx[w].key = KeyOf(meta_token'[i])
                      /\ meta_token'[i].token_fingerprint =
                            fingerprint(tx[w].token)]_vars
    /\ [](rd.pc = "got" /\ rd.status = "ok" =>
             /\ rd.row \in DOMAIN meta_token
             /\ KeyOf(meta_token[rd.row]) = rd.key
             /\ meta_token[rd.row].token_fingerprint = fingerprint(rd.token))

\* C38 witness: the page key of tenant c1 was rotated while the table held an
\* active secret of another key with the same owner id; that secret is still
\* active, and a read of its key returned it.
C38_Witness ==
    \E i, j, k \in DOMAIN meta_token :
       /\ i < j /\ j < k
       /\ KeyOf(meta_token[i]) = Key("c1", "page", "id1")
       /\ KeyOf(meta_token[k]) = Key("c1", "page", "id1")
       /\ meta_token[i].status = "revoked"
       /\ meta_token[k].status = "active"
       /\ KeyOf(meta_token[j]) = Key("c1", "user", "id1")
       /\ meta_token[j].status = "active"
       /\ rd.pc = "got"
       /\ rd.key = Key("c1", "user", "id1")
       /\ rd.row = j
       /\ rd.ver = 3

(***************************************************************************)
(* store_user_and_page_tokens                                              *)
(***************************************************************************)
\* How a store_token call ends: its transaction commits, or an exception
\* leaves the `with psycopg.connect(...)` block and it is rolled back.
StoreOutcomes == {"commit", "raise"}

\* The caller before a call, and as store_user_and_page_tokens is entered:
\* before is the table the call found.
NoPair == [driver |-> "store_user_and_page_tokens", pc |-> "idle"]

NewPair(client_id, meta_user_id, page_id, before) ==
    [driver |-> "store_user_and_page_tokens", pc |-> "user",
     client_id |-> client_id, meta_user_id |-> meta_user_id,
     page_id |-> page_id, before |-> before, failed |-> "none",
     user_token |-> NoToken, page_token |-> NoToken]

store_user_and_page_tokens_enter ==
    /\ run = NoPair
    /\ Len(meta_token) < MaxTx
    /\ \E client_id \in {"c1", "c2"}, page_id \in {"id1", "id2"} :
          run' = NewPair(client_id, RunUser, page_id, meta_token)
    /\ UNCHANGED <<ads, graph, last, varsVault, varsCalls>>

\* A page store whose failure also undoes the user store, as if the two
\* shared one transaction.
store_user_and_page_tokens_page_one_transaction(outcome) ==
    /\ run.driver = "store_user_and_page_tokens"
    /\ run.pc = "page"
    /\ IF outcome = "raise"
       THEN /\ run' = [run EXCEPT !.pc = "raised", !.failed = "page"]
            /\ meta_token' = run.before
            /\ UNCHANGED nTx
       ELSE /\ run' = [run EXCEPT !.pc = "returned", !.page_token = Secret(nTx + 1)]
            /\ meta_token' = Stored(meta_token,
                                    Key(run.client_id, "page", run.page_id),
                                    Secret(nTx + 1), nTx + 1, 0)
            /\ nTx' = nTx + 1
    /\ UNCHANGED <<ads, graph, last, tx, rd, varsCalls>>

\* The first self.store_token(...): the user token, in its own connection and
\* transaction.  An exception ends store_user_and_page_tokens.
store_user_and_page_tokens_user(outcome) ==
    /\ run.driver = "store_user_and_page_tokens"
    /\ run.pc = "user"
    /\ IF outcome = "raise"
       THEN /\ run' = [run EXCEPT !.pc = "raised", !.failed = "user"]
            /\ UNCHANGED <<meta_token, nTx>>
       ELSE /\ run' = [run EXCEPT !.pc = "page", !.user_token = Secret(nTx + 1)]
            /\ meta_token' = Stored(meta_token,
                                    Key(run.client_id, "user", run.meta_user_id),
                                    Secret(nTx + 1), nTx + 1, 0)
            /\ nTx' = nTx + 1
    /\ UNCHANGED <<ads, graph, last, tx, rd, varsCalls>>

\* The second self.store_token(...): the page token, in a new connection and
\* transaction; its rollback undoes nothing of the first.
store_user_and_page_tokens_page(outcome) ==
    /\ run.driver = "store_user_and_page_tokens"
    /\ run.pc = "page"
    /\ IF outcome = "raise"
       THEN /\ run' = [run EXCEPT !.pc = "raised", !.failed = "page"]
            /\ UNCHANGED <<meta_token, nTx>>
       ELSE /\ run' = [run EXCEPT !.pc = "returned", !.page_token = Secret(nTx + 1)]
            /\ meta_token' = Stored(meta_token,
                                    Key(run.client_id, "page", run.page_id),
                                    Secret(nTx + 1), nTx + 1, 0)
            /\ nTx' = nTx + 1
    /\ UNCHANGED <<ads, graph, last, tx, rd, varsCalls>>

\* The caller takes the result (None or the exception) and may call again.
store_user_and_page_tokens_return ==
    /\ run.driver = "store_user_and_page_tokens"
    /\ run.pc \in {"returned", "raised"}
    /\ run' = NoPair
    /\ UNCHANGED <<ads, graph, last, varsVault, varsCalls>>

InitPair ==
    /\ ads = NoAds
    /\ run = NoPair
    /\ graph = <<>>
    /\ last = NoCall
    /\ VaultAtRest
    /\ CallsAtRest

NextPair ==
    \/ store_user_and_page_tokens_enter
    \/ \E outcome \in StoreOutcomes : store_user_and_page_tokens_user(outcome)
    \/ \E outcome \in StoreOutcomes : store_user_and_page_tokens_page(outcome)
    \/ store_user_and_page_tokens_return

SpecPair == InitPair /\ [][NextPair]_vars

\* The call's user key and page key.
PairUserKey == Key(run.client_id, "user", run.meta_user_id)
PairPageKey == Key(run.client_id, "page", run.page_id)

\* C39: store_user_and_page_tokens is two transactions: when the page store
\* fails after the user store, the user key's rotation stays committed (the
\* new user secret is the key's one active row and the rows that were active
\* before are revoked), the page key's rows are exactly those the call found,
\* and the table is what the user store alone leaves.
C39_PageFailureKeepsUserRotation ==
    (/\ run.driver = "store_user_and_page_tokens"
     /\ run.pc = "raised"
     /\ run.failed = "page") =>
       /\ Len(meta_token) = Len(run.before) + 1
       /\ ActiveIds(meta_token, PairUserKey) = {Len(meta_token)}
       /\ meta_token[Len(meta_token)].token_fingerprint = fingerprint(run.user_token)
       /\ \A i \in ActiveIds(run.before, PairUserKey) :
             meta_token[i].status = "revoked"
       /\ \A i \in DOMAIN run.before :
             KeyOf(run.before[i]) # PairUserKey => meta_token[i] = run.before[i]
       /\ RowsOf(meta_token, PairPageKey) = RowsOf(run.before, PairPageKey)

\* C39 witness: a second call for the same user and page: the user secret of
\* the first call was revoked and replaced, the page store failed, and the
\* page secret of the first call is still the page key's active row.
C39_Witness ==
    /\ run.driver = "store_user_and_page_tokens"
    /\ run.pc = "raised"
    /\ run.failed = "page"
    /\ Len(run.before) = 2
    /\ ActiveIds(run.before, PairUserKey) = {1}
    /\ ActiveIds(meta_token, PairUserKey) = {3}
    /\ ActiveIds(meta_token, PairPageKey) = {2}

(***************************************************************************)
(* Claims about an error envelope in a status poll                         *)
(***************************************************************************)
\* C40: when a status poll is answered with an error envelope the poller
\* fails at once with that error: the poll ends the call with the
\* HTTPException carrying the envelope, it is not counted among the polls that
\* saw a status to wait on, no status request and no media_publish request
\* follows it.
C40_ErrorEnvelopeFailsAtOnce ==
    /\ [](poll.pc # "none" /\ poll.terminal = "error" =>
             /\ poll.pc = "done"
             /\ poll.result = "HTTPException"
             /\ poll.detail = "error"
             /\ poll.in_progress + poll.other = poll.polls - 1
             /\ poll.publishes = 0)
    /\ [][(poll.pc # "none" /\ poll.terminal = "error") => poll' = poll]_vars

\* C40 witness: publish_video_instagram saw IN_PROGRESS twice and then the
\* error envelope at its third poll, and ended without a publish request.
C40_Witness ==
    /\ poll.pc = "done"
    /\ poll.fn = "publish_video_instagram"
    /\ poll.terminal = "error"
    /\ poll.polls = 3
    /\ poll.in_progress = 2
    /\ poll.publishes = 0

====
